---------------------------- MODULE Spec2Model ----------------------------
(***************************************************************************)
(* fastify-api-key: the authentication guard pipeline (key extraction,     *)
(* validation delegation, scope enforcement, request decoration).          *)
(*                                                                         *)
(* Encoding of JavaScript values                                           *)
(*   string            a sequence of one-character strings                 *)
(*   T | undefined     a sequence of length 0 (None) or 1 (Some(v))        *)
(*   object / map      a function from names to values; a name outside     *)
(*                     its DOMAIN reads as undefined                       *)
(***************************************************************************)
EXTENDS Integers, Sequences, FiniteSets, TLC

VARIABLES
    options,    \* FastifyApiKeyOptions given to fastifyApiKeyPlugin
    request,    \* request id -> the inbound request (headers, query, body, cookies)
    decor,      \* request id -> the decorated request fields
    pc,         \* request id -> position of the guard invocation
    entry,      \* request id -> the decorator the route's guard was built with
    guardOptions, \* request id -> ApiKeyGuardOptions of the invoked guard
    key,        \* request id -> local `key`
    result,     \* request id -> local `result` (None until validate returned)
    outcome,    \* request id -> how the invocation ended
    error,      \* request id -> the structured error built by the guard
    trace,      \* request id -> the calls made by the invocation, in order
    pre,        \* request id -> decor at the start of the invocation
    invocations, \* request id -> number of guard invocations started
    call,       \* the last direct call of an exported function, with its arguments
    ret         \* what that call returned

vars == <<options, request, decor, pc, entry, guardOptions, key, result, outcome,
          error, trace, pre, invocations, call, ret>>

-----------------------------------------------------------------------------
(* Bounds                                                                  *)

\* guard invocations run on one request (a route may chain several guards)
MaxInvocations == 1

\* the requests in flight
Requests == {"r1", "r2"}

\* the request served when requests are taken one at a time; the other one
\* never reaches a guarded route
Sequential == {"r1"}

-----------------------------------------------------------------------------
(* Optional values and strings                                             *)

None == << >>
Some(v) == <<v>>
IsSome(o) == Len(o) > 0
Get(o) == o[1]
\* a ?? b
Coalesce(o, d) == IF IsSome(o) THEN Get(o) ELSE d

\* String.prototype.trim strips these from both ends
WhiteSpace == {" ", "\t"}

RECURSIVE TrimStart(_)
TrimStart(s) ==
    IF s # << >> /\ Head(s) \in WhiteSpace THEN TrimStart(Tail(s)) ELSE s

RECURSIVE TrimEnd(_)
TrimEnd(s) ==
    IF s # << >> /\ s[Len(s)] \in WhiteSpace
    THEN TrimEnd(SubSeq(s, 1, Len(s) - 1))
    ELSE s

Trim(s) == TrimEnd(TrimStart(s))

StartsWith(s, p) == Len(p) <= Len(s) /\ SubSeq(s, 1, Len(p)) = p

\* s.slice(n)
Slice(s, n) == SubSeq(s, n + 1, Len(s))

LowerChar(c) ==
    CASE c = "X" -> "x"
      [] c = "A" -> "a"
      [] c = "P" -> "p"
      [] c = "I" -> "i"
      [] c = "K" -> "k"
      [] c = "B" -> "b"
      [] c = "E" -> "e"
      [] c = "Y" -> "y"
      [] OTHER -> c

ToLowerCase(s) == [i \in 1..Len(s) |-> LowerChar(s[i])]

-----------------------------------------------------------------------------
(* JavaScript values found in a request                                    *)

Undefined == [t |-> "undefined", s |-> << >>, a |-> << >>]
Null == [t |-> "null", s |-> << >>, a |-> << >>]
Str(s) == [t |-> "string", s |-> s, a |-> << >>]
Num == [t |-> "number", s |-> << >>, a |-> << >>]
\* an array of strings (a repeated header, a repeated query parameter)
Arr(a) == [t |-> "array", s |-> << >>, a |-> a]
\* a nested object
Obj == [t |-> "object", s |-> << >>, a |-> << >>]

\* m[name] of a JavaScript object
Lookup(m, name) == IF name \in DOMAIN m THEN m[name] ELSE Undefined

NoFields == [n \in {} |-> Undefined]

-----------------------------------------------------------------------------
(* extractors.ts                                                           *)

\* request.body: undefined (no body parsed), null, or the parsed object
NoBody == [t |-> "undefined", f |-> NoFields]
NullBody == [t |-> "null", f |-> NoFields]
Body(fields) == [t |-> "object", f |-> fields]

\* `body && ...`
Truthy(body) == body.t \notin {"undefined", "null"}

\* request.headers[source.name]: the name is looked up as it is written
SourceValue_HeaderNameAsIs(req, source) ==
    CASE source.type = "header" ->
            LET headerValue == Lookup(req.headers, source.name) IN
            IF headerValue.t = "array"
            THEN (IF Len(headerValue.a) > 0 THEN Some(headerValue.a[1]) ELSE None)
            ELSE (IF headerValue.t = "string" THEN Some(headerValue.s) ELSE None)
      [] source.type = "query" ->
            IF IsSome(req.query) /\ Lookup(Get(req.query), source.name).t = "string"
            THEN Some(Lookup(Get(req.query), source.name).s)
            ELSE None
      [] source.type = "body" ->
            IF Truthy(req.body) /\ Lookup(req.body.f, source.name).t = "string"
            THEN Some(Lookup(req.body.f, source.name).s)
            ELSE None
      [] source.type = "cookie" ->
            IF IsSome(req.cookies) /\ Lookup(Get(req.cookies), source.name).t = "string"
            THEN Some(Lookup(Get(req.cookies), source.name).s)
            ELSE None

\* query parameters given as arrays are read as their first element
SourceValue_QueryArrayFirst(req, source) ==
    CASE source.type = "header" ->
            LET headerValue == Lookup(req.headers, ToLowerCase(source.name)) IN
            IF headerValue.t = "array"
            THEN (IF Len(headerValue.a) > 0 THEN Some(headerValue.a[1]) ELSE None)
            ELSE (IF headerValue.t = "string" THEN Some(headerValue.s) ELSE None)
      [] source.type = "query" ->
            LET q == IF IsSome(req.query) THEN Lookup(Get(req.query), source.name)
                     ELSE Undefined IN
            IF q.t = "string" THEN Some(q.s)
            ELSE IF q.t = "array" /\ Len(q.a) > 0 THEN Some(q.a[1])
            ELSE None
      [] source.type = "body" ->
            IF Truthy(req.body) /\ Lookup(req.body.f, source.name).t = "string"
            THEN Some(Lookup(req.body.f, source.name).s)
            ELSE None
      [] source.type = "cookie" ->
            IF IsSome(req.cookies) /\ Lookup(Get(req.cookies), source.name).t = "string"
            THEN Some(Lookup(Get(req.cookies), source.name).s)
            ELSE None

\* the `value` selected by the switch of extractFromSource: None is undefined
SourceValue(req, source) ==
    CASE source.type = "header" ->
            LET headerValue == Lookup(req.headers, ToLowerCase(source.name)) IN
            IF headerValue.t = "array"
            THEN (IF Len(headerValue.a) > 0 THEN Some(headerValue.a[1]) ELSE None)
            ELSE (IF headerValue.t = "string" THEN Some(headerValue.s) ELSE None)
      [] source.type = "query" ->
            IF IsSome(req.query) /\ Lookup(Get(req.query), source.name).t = "string"
            THEN Some(Lookup(Get(req.query), source.name).s)
            ELSE None
      [] source.type = "body" ->
            IF Truthy(req.body) /\ Lookup(req.body.f, source.name).t = "string"
            THEN Some(Lookup(req.body.f, source.name).s)
            ELSE None
      [] source.type = "cookie" ->
            IF IsSome(req.cookies) /\ Lookup(Get(req.cookies), source.name).t = "string"
            THEN Some(Lookup(Get(req.cookies), source.name).s)
            ELSE None

\* the prefix is sliced off without the startsWith test
extractFromSource_PrefixAssumed(req, source) ==
    LET value == SourceValue(req, source) IN
    IF ~IsSome(value) \/ Get(value) = << >>
    THEN None
    ELSE IF IsSome(source.prefix) /\ Get(source.prefix) # << >>
         THEN Some(Trim(Slice(Get(value), Len(Get(source.prefix)))))
         ELSE Some(Trim(Get(value)))

\* value = value.trim() before the prefix test: a prefix behind leading
\* whitespace is matched and removed
extractFromSource_TrimmedFirst(req, source) ==
    LET value == SourceValue(req, source) IN
    IF ~IsSome(value) \/ Get(value) = << >>
    THEN None
    ELSE IF IsSome(source.prefix) /\ Get(source.prefix) # << >>
            /\ StartsWith(Trim(Get(value)), Get(source.prefix))
         THEN Some(Trim(Slice(Trim(Get(value)), Len(Get(source.prefix)))))
         ELSE Some(Trim(Get(value)))

\* string | null, null being None
extractFromSource(req, source) ==
    LET value == SourceValue(req, source) IN
    IF ~IsSome(value) \/ Get(value) = << >>
    THEN None
    ELSE IF IsSome(source.prefix) /\ Get(source.prefix) # << >>
            /\ StartsWith(Get(value), Get(source.prefix))
         THEN Some(Trim(Slice(Get(value), Len(Get(source.prefix)))))
         ELSE Some(Trim(Get(value)))

\* the loop keeps the last key found instead of returning the first
RECURSIVE extractApiKey_LastWins(_, _)
extractApiKey_LastWins(req, sources) ==
    IF sources = << >>
    THEN None
    ELSE LET k == extractFromSource(req, sources[Len(sources)]) IN
         IF IsSome(k) /\ Get(k) # << >>
         THEN k
         ELSE extractApiKey_LastWins(req, SubSeq(sources, 1, Len(sources) - 1))

\* `if (key !== null) return key`: an empty candidate ends the loop
RECURSIVE extractApiKey_NullCheckOnly(_, _)
extractApiKey_NullCheckOnly(req, sources) ==
    IF sources = << >>
    THEN None
    ELSE LET k == extractFromSource(req, Head(sources)) IN
         IF IsSome(k)
         THEN k
         ELSE extractApiKey_NullCheckOnly(req, Tail(sources))

RECURSIVE extractApiKey(_, _)
extractApiKey(req, sources) ==
    IF sources = << >>
    THEN None
    ELSE LET k == extractFromSource(req, Head(sources)) IN
         IF IsSome(k) /\ Get(k) # << >>
         THEN k
         ELSE extractApiKey(req, Tail(sources))

-----------------------------------------------------------------------------
(* validators.ts, utils.ts                                                 *)

\* provided.includes(scope)
Includes(list, x) == \E i \in 1..Len(list) : list[i] = x

\* every required entry needs a provided entry of its own
hasAllScopes_EntryForEntry(provided, required) ==
    \A i \in 1..Len(required) :
        Cardinality({j \in 1..Len(required) : required[j] = required[i]})
            <= Cardinality({j \in 1..Len(provided) : provided[j] = required[i]})

\* required.every((scope, i) => provided[i] === scope): entries are compared
\* position by position
hasAllScopes_Positional(provided, required) ==
    \A i \in 1..Len(required) : i <= Len(provided) /\ provided[i] = required[i]

hasAllScopes(provided, required) ==
    \A i \in 1..Len(required) : Includes(provided, required[i])

\* required.length === 0 || required.some(...)
hasAnyScope_EmptyIsTrue(provided, required) ==
    required = << >> \/ \E i \in 1..Len(required) : Includes(provided, required[i])

hasAnyScope(provided, required) ==
    \E i \in 1..Len(required) : Includes(provided, required[i])

\* requiredScopes.filter((s) => !providedScopes.includes(s))
RECURSIVE MissingFrom(_, _)
MissingFrom(required, provided) ==
    IF required = << >>
    THEN << >>
    ELSE (IF Includes(provided, Head(required)) THEN << >> ELSE <<Head(required)>>)
         \o MissingFrom(Tail(required), provided)

\* `if (anyScopes)` without the length test: an empty any-of list fails
validateScopes_EmptyAnyFails(providedScopes, requiredScopes, anyScopes) ==
    IF IsSome(requiredScopes) /\ Len(Get(requiredScopes)) > 0
       /\ ~hasAllScopes(providedScopes, Get(requiredScopes))
    THEN [valid |-> FALSE,
          missing |-> Some(MissingFrom(Get(requiredScopes), providedScopes))]
    ELSE IF IsSome(anyScopes) /\ ~hasAnyScope(providedScopes, Get(anyScopes))
         THEN [valid |-> FALSE, missing |-> anyScopes]
         ELSE [valid |-> TRUE, missing |-> None]

\* `missing: requiredScopes` without the filter
validateScopes_MissingIsRequired(providedScopes, requiredScopes, anyScopes) ==
    IF IsSome(requiredScopes) /\ Len(Get(requiredScopes)) > 0
       /\ ~hasAllScopes(providedScopes, Get(requiredScopes))
    THEN [valid |-> FALSE, missing |-> requiredScopes]
    ELSE IF IsSome(anyScopes) /\ Len(Get(anyScopes)) > 0
            /\ ~hasAnyScope(providedScopes, Get(anyScopes))
         THEN [valid |-> FALSE, missing |-> anyScopes]
         ELSE [valid |-> TRUE, missing |-> None]

\* requiredScopes and anyScopes are optional (None is undefined)
validateScopes(providedScopes, requiredScopes, anyScopes) ==
    IF IsSome(requiredScopes) /\ Len(Get(requiredScopes)) > 0
       /\ ~hasAllScopes(providedScopes, Get(requiredScopes))
    THEN [valid |-> FALSE,
          missing |-> Some(MissingFrom(Get(requiredScopes), providedScopes))]
    ELSE IF IsSome(anyScopes) /\ Len(Get(anyScopes)) > 0
            /\ ~hasAnyScope(providedScopes, Get(anyScopes))
         THEN [valid |-> FALSE, missing |-> anyScopes]
         ELSE [valid |-> TRUE, missing |-> None]

\* The strings compared are sequences of UTF-16 code units, written by their
\* hexadecimal value: two letters, a two-byte letter, a high surrogate and a
\* low surrogate
HighSurrogates == {"D800"}
LowSurrogates == {"DC00"}

\* the UTF-8 bytes of a code point of the basic plane that is no surrogate
Utf8Unit(u) ==
    CASE u = "0061" -> <<97>>
      [] u = "0062" -> <<98>>
      [] u = "00E9" -> <<195, 169>>

\* the UTF-8 bytes of the code point a surrogate pair stands for
Utf8Pair(hi, lo) ==
    CASE hi = "D800" /\ lo = "DC00" -> <<240, 144, 128, 128>>

\* U+FFFD, written in place of a surrogate that has no partner
Utf8Replacement == <<239, 191, 189>>

\* Buffer.from(s): the UTF-8 encoding of the string
RECURSIVE BufferFrom(_)
BufferFrom(s) ==
    IF s = << >> THEN << >>
    ELSE IF Len(s) >= 2 /\ s[1] \in HighSurrogates /\ s[2] \in LowSurrogates
    THEN Utf8Pair(s[1], s[2]) \o BufferFrom(Tail(Tail(s)))
    ELSE IF s[1] \in HighSurrogates \cup LowSurrogates
    THEN Utf8Replacement \o BufferFrom(Tail(s))
    ELSE Utf8Unit(s[1]) \o BufferFrom(Tail(s))

\* crypto.timingSafeEqual on buffers of one length: every byte is examined,
\* whatever the buffers hold
timingSafeEqual(x, y) == [equal |-> x = y, examined |-> Len(x)]

\* the bytes a comparison that stops at the first difference examines
RECURSIVE UpToFirstDifference(_, _)
UpToFirstDifference(x, y) ==
    IF x = << >> \/ y = << >> THEN 0
    ELSE IF Head(x) # Head(y) THEN 1
    ELSE 1 + UpToFirstDifference(Tail(x), Tail(y))

\* return bufA.equals(bufB): the comparison stops at the first difference
\* and is skipped when the lengths differ
timingSafeCompare_EarlyExit(a, b) ==
    IF a.t # "string" \/ b.t # "string"
    THEN [value |-> FALSE, work |-> << >>]
    ELSE LET bufA == BufferFrom(a.s)
             bufB == BufferFrom(b.s)
         IN  IF Len(bufA) # Len(bufB)
             THEN [value |-> FALSE, work |-> << >>]
             ELSE [value |-> bufA = bufB,
                   work |-> <<UpToFirstDifference(bufA, bufB)>>]

\* the result, and the bytes examined by each comparison made on the way
timingSafeCompare(a, b) ==
    IF a.t # "string" \/ b.t # "string"
    THEN [value |-> FALSE, work |-> << >>]
    ELSE LET bufA == BufferFrom(a.s)
             bufB == BufferFrom(b.s)
         IN  IF Len(bufA) # Len(bufB)
             THEN [value |-> FALSE, work |-> <<timingSafeEqual(bufA, bufA).examined>>]
             ELSE [value |-> timingSafeEqual(bufA, bufB).equal,
                   work |-> <<timingSafeEqual(bufA, bufB).examined>>]

\* the base64url alphabet, by six-bit value (the first entry is value 0)
Base64UrlChars ==
    << "A", "B", "C", "D", "E", "F", "G", "H", "I", "J", "K", "L", "M",
       "N", "O", "P", "Q", "R", "S", "T", "U", "V", "W", "X", "Y", "Z",
       "a", "b", "c", "d", "e", "f", "g", "h", "i", "j", "k", "l", "m",
       "n", "o", "p", "q", "r", "s", "t", "u", "v", "w", "x", "y", "z",
       "0", "1", "2", "3", "4", "5", "6", "7", "8", "9", "-", "_" >>

Base64UrlChar(v) == Base64UrlChars[v + 1]

\* bytes.toString('base64url'): three bytes give four characters, a rest of
\* two bytes three, a rest of one byte two; no padding
RECURSIVE ToBase64Url(_)
ToBase64Url(bytes) ==
    IF Len(bytes) = 0 THEN << >>
    ELSE IF Len(bytes) = 1
    THEN LET n == bytes[1] * 16 IN
         <<Base64UrlChar(n \div 64), Base64UrlChar(n % 64)>>
    ELSE IF Len(bytes) = 2
    THEN LET n == (bytes[1] * 256 + bytes[2]) * 4 IN
         <<Base64UrlChar(n \div 4096), Base64UrlChar((n \div 64) % 64),
           Base64UrlChar(n % 64)>>
    ELSE LET n == bytes[1] * 65536 + bytes[2] * 256 + bytes[3] IN
         <<Base64UrlChar(n \div 262144), Base64UrlChar((n \div 4096) % 64),
           Base64UrlChar((n \div 64) % 64), Base64UrlChar(n % 64)>>
         \o ToBase64Url(SubSeq(bytes, 4, Len(bytes)))

\* s.slice(0, n) for n >= 0
SliceTo(s, n) == SubSeq(s, 1, IF n < Len(s) THEN n ELSE Len(s))

\* const { prefix = '', length = 32 } = options
GenPrefix(opts) == Coalesce(opts.prefix, << >>)
GenLength(opts) == Coalesce(opts.length, 32)

\* Math.floor((length * 3) / 4)
ByteCount_Floor(length) == (length * 3) \div 4

\* Math.ceil((length * 3) / 4)
ByteCount(length) == (length * 3 + 3) \div 4

\* lines 76-77, `bytes` being what randomBytes returned
generateApiKey(opts, bytes) ==
    LET apiKey == SliceTo(ToBase64Url(bytes), GenLength(opts)) IN
    IF GenPrefix(opts) # << >>
    THEN GenPrefix(opts) \o <<"_">> \o apiKey
    ELSE apiKey

-----------------------------------------------------------------------------
(* errors.ts: a message is a sequence of text fragments                    *)

ApiKeyError(name, code, message, statusCode) ==
    [name |-> name, code |-> code, message |-> message,
     statusCode |-> statusCode,
     requiredScopes |-> None, providedScopes |-> None, retryAfter |-> None]

MissingApiKeyError ==
    ApiKeyError("MissingApiKeyError", "MISSING_API_KEY",
                <<"API key is required">>, 401)

\* super('INVALID_API_KEY', message || 'Invalid API key', 401)
InvalidApiKeyError_OrDefault(message) ==
    ApiKeyError("InvalidApiKeyError", "INVALID_API_KEY",
                <<IF IsSome(message) /\ Get(message) # "" THEN Get(message)
                  ELSE "Invalid API key">>, 401)

\* constructor(message = 'Invalid API key'): the default applies to undefined
InvalidApiKeyError(message) ==
    ApiKeyError("InvalidApiKeyError", "INVALID_API_KEY",
                <<Coalesce(message, "Invalid API key")>>, 401)

\* required.join(', ')
RECURSIVE Join(_)
Join(list) ==
    IF Len(list) = 0 THEN << >>
    ELSE IF Len(list) = 1 THEN <<list[1]>>
    ELSE <<Head(list), ", ">> \o Join(Tail(list))

InsufficientScopesError(required, provided) ==
    [ApiKeyError("InsufficientScopesError", "INSUFFICIENT_SCOPES",
                 <<"Insufficient scopes. Required: ">> \o Join(required), 403)
     EXCEPT !.requiredScopes = Some(required),
            !.providedScopes = Some(provided)]

RateLimitExceededError(retryAfter) ==
    [ApiKeyError("RateLimitExceededError", "RATE_LIMIT_EXCEEDED",
                 <<"Rate limit exceeded">>, 429)
     EXCEPT !.retryAfter = Some(retryAfter)]

\* no subclass overrides toJSON
toJSON_BaseOnly(e) ==
    [error |-> e.code, message |-> e.message, statusCode |-> e.statusCode]

\* ApiKeyError.toJSON and its overrides
toJSON(e) ==
    IF e.name = "InsufficientScopesError"
    THEN [error |-> e.code, message |-> e.message, statusCode |-> e.statusCode,
          requiredScopes |-> Get(e.requiredScopes),
          providedScopes |-> Get(e.providedScopes)]
    ELSE IF e.name = "RateLimitExceededError"
    THEN [error |-> e.code, message |-> e.message, statusCode |-> e.statusCode,
          retryAfter |-> Get(e.retryAfter)]
    ELSE [error |-> e.code, message |-> e.message, statusCode |-> e.statusCode]

-----------------------------------------------------------------------------
(* The inputs: plugin options, requests, routes, validator results         *)

XApiKey == <<"X", "-", "A", "P", "I", "-", "K", "e", "y">>

DEFAULT_SOURCES == << [type |-> "header", name |-> XApiKey, prefix |-> None] >>

\* a source list an application configures: a prefixed header, then a query
\* parameter
CustomSources ==
    << [type |-> "header", name |-> XApiKey, prefix |-> Some(<<"B", " ">>)],
       [type |-> "query", name |-> <<"k">>, prefix |-> None] >>

\* every combination of the callbacks and the anonymous-access default, under
\* each of these settings of the remaining options
OptionsSet ==
    { [sources |-> o.sources, errorHandler |-> eh,
       decoratorName |-> o.decoratorName, allowAnonymous |-> aa,
       onValidation |-> ov, timingSafe |-> o.timingSafe] :
        o \in { [sources |-> None, decoratorName |-> None, timingSafe |-> None],
                [sources |-> Some(CustomSources), decoratorName |-> Some("auth"),
                 timingSafe |-> Some(FALSE)],
                [sources |-> Some(CustomSources), decoratorName |-> None,
                 timingSafe |-> Some(TRUE)],
                [sources |-> None, decoratorName |-> Some("auth"),
                 timingSafe |-> Some(FALSE)] },
        eh \in {None, Some("errorHandler")},
        aa \in {None, Some(TRUE), Some(FALSE)},
        ov \in {None, Some("onValidation")} }

Req(headers, query) ==
    [headers |-> headers, query |-> Some(query), body |-> NoBody, cookies |-> None]

Header(v) == [n \in {ToLowerCase(XApiKey)} |-> v]
Query(v) == [n \in {<<"k">>} |-> v]

RequestSet ==
    { Req(NoFields, NoFields),
      Req(Header(Str(<<"s", "k">>)), NoFields),
      Req(Header(Str(<<"B", " ", "s", "k", " ">>)), Query(Str(<<"q">>))),
      Req(Header(Str(<<" ", " ">>)), Query(Str(<<"q", "k">>))) }

ScopeLists == { << >>, <<"read">>, <<"read", "write">> }

GuardOptionsSet ==
    [scopes : {None} \cup {Some(l) : l \in ScopeLists},
     anyScope : {None, Some(<< >>), Some(<<"admin", "write">>)},
     allowAnonymous : {None, Some(TRUE), Some(FALSE)}]

\* the rate-limit data of a key that has used up its quota
RateLimit == [limit |-> 2, remaining |-> 0, reset |-> 3]
Metadata == [n \in {"user"} |-> "u1"]
EmptyObject == [n \in {} |-> ""]

\* what the external validator may return
ValidationResults ==
    { [valid |-> TRUE, scopes |-> sc, rateLimit |-> x.rateLimit,
       metadata |-> x.metadata, errorMessage |-> None] :
        sc \in {None, Some(<<"read">>), Some(<<"read", "write">>)},
        x \in { [rateLimit |-> None, metadata |-> Some(Metadata)],
                [rateLimit |-> Some(RateLimit), metadata |-> None] } }
    \cup
    { [valid |-> FALSE, scopes |-> x.scopes, rateLimit |-> None,
       metadata |-> None, errorMessage |-> x.errorMessage] :
        x \in { [scopes |-> None, errorMessage |-> None],
                [scopes |-> Some(<<"read">>), errorMessage |-> Some("Key has expired")],
                [scopes |-> None, errorMessage |-> Some("")] } }

-----------------------------------------------------------------------------
(* plugin.ts                                                               *)

\* the anonymous-access default destructured as `allowAnonymous = true`
Config_AnonymousByDefault(opts) ==
    [sources |-> Coalesce(opts.sources, DEFAULT_SOURCES),
     errorHandler |-> opts.errorHandler,
     decoratorName |-> Coalesce(opts.decoratorName, "apiKey"),
     allowAnonymous |-> Coalesce(opts.allowAnonymous, TRUE),
     onValidation |-> opts.onValidation,
     timingSafe |-> Coalesce(opts.timingSafe, TRUE)]

\* the destructuring of `options` with its defaults
Config(opts) ==
    [sources |-> Coalesce(opts.sources, DEFAULT_SOURCES),
     errorHandler |-> opts.errorHandler,
     decoratorName |-> Coalesce(opts.decoratorName, "apiKey"),
     allowAnonymous |-> Coalesce(opts.allowAnonymous, FALSE),
     onValidation |-> opts.onValidation,
     timingSafe |-> Coalesce(opts.timingSafe, TRUE)]

\* fastify.decorateRequest(decoratorName, undefined);
\* fastify.decorateRequest('apiKeyScopes', undefined)
DecoratedRequest(opts) ==
    [f \in {Config(opts).decoratorName, "apiKeyScopes"} |-> None]

\* guardOptions.allowAnonymous || allowAnonymous
shouldAllowAnonymous_Or(opts, gopts) ==
    Coalesce(gopts.allowAnonymous, FALSE) \/ Config(opts).allowAnonymous

\* guardOptions.allowAnonymous ?? allowAnonymous
shouldAllowAnonymous(opts, gopts) ==
    Coalesce(gopts.allowAnonymous, Config(opts).allowAnonymous)

\* result.scopes ?? []
providedScopes(res) == Coalesce(res.scopes, << >>)

\* guardOptions.scopes ?? guardOptions.anyScope ?? []
ErrorRequiredScopes(gopts) ==
    Coalesce(gopts.scopes, Coalesce(gopts.anyScope, << >>))

\* key: timingSafe ? key : '[REDACTED]'
apiKeyData_RedactionInverted(opts, k, res) ==
    [key |-> IF Config(opts).timingSafe THEN k ELSE <<"[REDACTED]">>,
     scopes |-> providedScopes(res),
     rateLimit |-> res.rateLimit,
     metadata |-> Coalesce(res.metadata, EmptyObject)]

\* the context built without rateLimit and with `metadata: {}`
apiKeyData_ValidatorDataDropped(opts, k, res) ==
    [key |-> IF Config(opts).timingSafe THEN <<"[REDACTED]">> ELSE k,
     scopes |-> providedScopes(res),
     rateLimit |-> None,
     metadata |-> EmptyObject]

\* metadata: timingSafe ? {} : result.metadata ?? {}
apiKeyData_RedactionHidesMetadata(opts, k, res) ==
    [key |-> IF Config(opts).timingSafe THEN <<"[REDACTED]">> ELSE k,
     scopes |-> providedScopes(res),
     rateLimit |-> res.rateLimit,
     metadata |-> IF Config(opts).timingSafe THEN EmptyObject
                  ELSE Coalesce(res.metadata, EmptyObject)]

\* lines 84-89: the Authentication Context
apiKeyData(opts, k, res) ==
    [key |-> IF Config(opts).timingSafe THEN <<"[REDACTED]">> ELSE k,
     scopes |-> providedScopes(res),
     rateLimit |-> res.rateLimit,
     metadata |-> Coalesce(res.metadata, EmptyObject)]

Ev(op, k, res, err) == [op |-> op, key |-> k, result |-> res, error |-> err]

\* onValidation(timingSafe ? '[REDACTED]' : key, result, request)
onValidationCall_Redacted(opts, k, res) ==
    Ev("onValidation",
       Some(IF Config(opts).timingSafe THEN <<"[REDACTED]">> ELSE k),
       Some(res), None)

\* line 52: onValidation(key, result, request)
onValidationCall(opts, k, res) == Ev("onValidation", Some(k), Some(res), None)

\* request.apiKey = apiKeyData, whatever decoratorName is
Populate_FixedName(d, opts, k, res) ==
    [f \in DOMAIN d |->
        IF f = "apiKeyScopes" THEN Some(providedScopes(res))
        ELSE IF f = "apiKey" THEN Some(apiKeyData(opts, k, res))
        ELSE d[f]]

\* line 92 left out: apiKeyScopes is not written
Populate_ScopesNotWritten(d, opts, k, res) ==
    [d EXCEPT ![Config(opts).decoratorName] = Some(apiKeyData(opts, k, res))]

\* lines 84-92: the request fields after a successful authentication
Populate(d, opts, k, res) ==
    [d EXCEPT ![Config(opts).decoratorName] = Some(apiKeyData(opts, k, res)),
              !["apiKeyScopes"] = Some(providedScopes(res))]

Return == [do |-> "return", error |-> None, scopeChecked |-> FALSE]
Throw(err, checked) == [do |-> "raise", error |-> Some(err), scopeChecked |-> checked]

\* lines 35-45: what the guard does when no key was extracted
MissingKeyStep(opts, gopts) ==
    IF shouldAllowAnonymous(opts, gopts)
    THEN Return
    ELSE Throw(MissingApiKeyError, FALSE)

\* the anonymous-access policy consulted for a missing key only
ValidatedStep_AnonymousOnlyWithoutKey(opts, gopts, res) ==
    IF ~res.valid
    THEN Throw(InvalidApiKeyError(res.errorMessage), FALSE)
    ELSE IF ~validateScopes(providedScopes(res), gopts.scopes, gopts.anyScope).valid
         THEN Throw(InsufficientScopesError(ErrorRequiredScopes(gopts),
                                            providedScopes(res)), TRUE)
         ELSE [do |-> "populate", error |-> None, scopeChecked |-> TRUE]

\* the anonymous-access policy consulted after a failed scope check as well
ValidatedStep_AnonymousSkipsScopes(opts, gopts, res) ==
    IF ~res.valid
    THEN IF shouldAllowAnonymous(opts, gopts)
         THEN Return
         ELSE Throw(InvalidApiKeyError(res.errorMessage), FALSE)
    ELSE IF ~validateScopes(providedScopes(res), gopts.scopes, gopts.anyScope).valid
         THEN IF shouldAllowAnonymous(opts, gopts)
              THEN [do |-> "return", error |-> None, scopeChecked |-> TRUE]
              ELSE Throw(InsufficientScopesError(ErrorRequiredScopes(gopts),
                                                 providedScopes(res)), TRUE)
         ELSE [do |-> "populate", error |-> None, scopeChecked |-> TRUE]

\* a valid key with no quota left is rejected with RateLimitExceededError
ValidatedStep_RateLimited(opts, gopts, res) ==
    IF ~res.valid
    THEN IF shouldAllowAnonymous(opts, gopts)
         THEN Return
         ELSE Throw(InvalidApiKeyError(res.errorMessage), FALSE)
    ELSE IF IsSome(res.rateLimit) /\ Get(res.rateLimit).remaining = 0
    THEN Throw(RateLimitExceededError(Get(res.rateLimit).reset), FALSE)
    ELSE IF ~validateScopes(providedScopes(res), gopts.scopes, gopts.anyScope).valid
         THEN Throw(InsufficientScopesError(ErrorRequiredScopes(gopts),
                                            providedScopes(res)), TRUE)
         ELSE [do |-> "populate", error |-> None, scopeChecked |-> TRUE]

\* the validity of the result is not looked at
ValidatedStep_ValidityIgnored(opts, gopts, res) ==
    IF ~validateScopes(providedScopes(res), gopts.scopes, gopts.anyScope).valid
    THEN Throw(InsufficientScopesError(ErrorRequiredScopes(gopts),
                                       providedScopes(res)), TRUE)
    ELSE [do |-> "populate", error |-> None, scopeChecked |-> TRUE]

\* lines 55-92: what the guard does with the validator's result
ValidatedStep(opts, gopts, res) ==
    IF ~res.valid
    THEN IF shouldAllowAnonymous(opts, gopts)
         THEN Return
         ELSE Throw(InvalidApiKeyError(res.errorMessage), FALSE)
    ELSE IF ~validateScopes(providedScopes(res), gopts.scopes, gopts.anyScope).valid
         THEN Throw(InsufficientScopesError(ErrorRequiredScopes(gopts),
                                            providedScopes(res)), TRUE)
         ELSE [do |-> "populate", error |-> None, scopeChecked |-> TRUE]

\* an invocation that does not authenticate resets both fields to undefined
Finish_ResetsUnlessAuthenticated(r, out, err, tr, d) ==
    /\ pc' = [pc EXCEPT ![r] = "done"]
    /\ outcome' = [outcome EXCEPT ![r] = out]
    /\ error' = [error EXCEPT ![r] = err]
    /\ trace' = [trace EXCEPT ![r] = tr]
    /\ decor' = [decor EXCEPT ![r] = IF out = "authenticated" THEN d
                                     ELSE DecoratedRequest(options)]

\* the invocation ends: `out` is how, `d` the request's decorated fields
Finish(r, out, err, tr, d) ==
    /\ pc' = [pc EXCEPT ![r] = "done"]
    /\ outcome' = [outcome EXCEPT ![r] = out]
    /\ error' = [error EXCEPT ![r] = err]
    /\ trace' = [trace EXCEPT ![r] = tr]
    /\ decor' = [decor EXCEPT ![r] = d]

\* the invocation is suspended in the await of the callback `where`
Await(r, where, err, tr) ==
    /\ pc' = [pc EXCEPT ![r] = where]
    /\ outcome' = [outcome EXCEPT ![r] = "pending"]
    /\ error' = [error EXCEPT ![r] = err]
    /\ trace' = [trace EXCEPT ![r] = tr]
    /\ decor' = decor

\* carries out a step: return, populate and return, or
\* if (errorHandler) { await errorHandler(error, request, reply); return; }
\* throw error;
Perform(r, step, k, res, tr0) ==
    LET tr == IF step.scopeChecked
              THEN Append(tr0, Ev("validateScopes", None, None, None))
              ELSE tr0
    IN  CASE step.do = "return" ->
                Finish(r, "anonymous", None, tr, decor[r])
          [] step.do = "populate" ->
                Finish(r, "authenticated", None,
                       Append(tr, Ev("decorate", None, None, None)),
                       Populate(decor[r], options, k, res))
          [] step.do = "raise" ->
                IF IsSome(Config(options).errorHandler)
                THEN Await(r, "errorHandler", step.error,
                           Append(tr, Ev("errorHandler", None, None, step.error)))
                ELSE Finish(r, "thrown", step.error, tr, decor[r])

\* `if (!key && shouldAllowAnonymous) return;` and no MissingApiKeyError: a
\* request without a key is handed to the validator
Guard_AbsentKeyValidated(r, gopts) ==
    /\ pc[r] \in {"idle", "done"}
    /\ invocations[r] < MaxInvocations
    /\ invocations' = [invocations EXCEPT ![r] = @ + 1]
    /\ guardOptions' = [guardOptions EXCEPT ![r] = gopts]
    /\ pre' = [pre EXCEPT ![r] = decor[r]]
    /\ result' = [result EXCEPT ![r] = None]
    /\ LET k == extractApiKey(request[r], Config(options).sources) IN
       /\ key' = [key EXCEPT ![r] = k]
       /\ IF ~IsSome(k) /\ shouldAllowAnonymous(options, gopts)
          THEN Perform(r, Return, None, None, << >>)
          ELSE Await(r, "validate", None, <<Ev("validate", k, None, None)>>)
    /\ UNCHANGED <<call, ret, options, request>>

\* allowAnonymous = guardOptions.allowAnonymous ?? allowAnonymous: the route's
\* policy is written into the plugin-wide default
Guard_PolicyWrittenBack(r, gopts) ==
    /\ pc[r] \in {"idle", "done"}
    /\ invocations[r] < MaxInvocations
    /\ invocations' = [invocations EXCEPT ![r] = @ + 1]
    /\ guardOptions' = [guardOptions EXCEPT ![r] = gopts]
    /\ pre' = [pre EXCEPT ![r] = decor[r]]
    /\ result' = [result EXCEPT ![r] = None]
    /\ options' = [options EXCEPT
                      !.allowAnonymous = Some(shouldAllowAnonymous(options, gopts))]
    /\ LET k == extractApiKey(request[r], Config(options).sources) IN
       /\ key' = [key EXCEPT ![r] = k]
       /\ IF ~IsSome(k)
          THEN Perform(r, MissingKeyStep(options, gopts), None, None, << >>)
          ELSE Await(r, "validate", None, <<Ev("validate", k, None, None)>>)
    /\ UNCHANGED <<call, ret, request>>

\* a request reaches a route guarded by createGuard(gopts): the guard runs up
\* to its first await (plugin.ts lines 30-48); `limit` bounds the guards run
\* on one request
GuardWithin(r, gopts, limit) ==
    /\ pc[r] \in {"idle", "done"}
    /\ invocations[r] < limit
    /\ invocations' = [invocations EXCEPT ![r] = @ + 1]
    /\ guardOptions' = [guardOptions EXCEPT ![r] = gopts]
    /\ pre' = [pre EXCEPT ![r] = decor[r]]
    /\ result' = [result EXCEPT ![r] = None]
    /\ LET k == extractApiKey(request[r], Config(options).sources) IN
       /\ key' = [key EXCEPT ![r] = k]
       /\ IF ~IsSome(k)
          THEN Perform(r, MissingKeyStep(options, gopts), None, None, << >>)
          ELSE Await(r, "validate", None, <<Ev("validate", k, None, None)>>)
    /\ UNCHANGED <<call, ret, options, request>>

Guard(r, gopts) == GuardWithin(r, gopts, MaxInvocations)

Entry(factory, scopes) == [factory |-> factory, scopes |-> scopes]
NoEntry == Entry("none", None)

\* fastify.decorate('apiKey', createGuard): the route's preHandler is
\* fastify.apiKey(gopts)
ApiKey(r, gopts) ==
    /\ Guard(r, gopts)
    /\ entry' = [entry EXCEPT ![r] = Entry("apiKey", gopts.scopes)]

\* (scopes?: string[]) => createGuard({ anyScope: scopes })
requireApiKey_AnyScope(scopes) ==
    [scopes |-> None, anyScope |-> scopes, allowAnonymous |-> None]

\* (scopes?: string[]) => createGuard({ scopes })
requireApiKey(scopes) ==
    [scopes |-> scopes, anyScope |-> None, allowAnonymous |-> None]

\* the arguments routes call fastify.requireApiKey with
RequireApiKeyArgs == {None} \cup {Some(l) : l \in ScopeLists}

\* the route's preHandler is fastify.requireApiKey(scopes)
RequireApiKey(r, scopes) ==
    /\ Guard(r, requireApiKey(scopes))
    /\ entry' = [entry EXCEPT ![r] = Entry("requireApiKey", scopes)]

\* onValidation(key, result, request) called without await: the guard goes on
\* while the hook is still running
ValidateReturns_HookNotAwaited(r, res) ==
    /\ pc[r] = "validate"
    /\ result' = [result EXCEPT ![r] = Some(res)]
    /\ LET tr == Append(trace[r], Ev("validateReturned", key[r], Some(res), None)) IN
       Perform(r, ValidatedStep(options, guardOptions[r], res), Get(key[r]), res,
               IF IsSome(Config(options).onValidation)
               THEN Append(tr, onValidationCall(options, Get(key[r]), res))
               ELSE tr)
    /\ UNCHANGED <<call, ret, options, request, entry, guardOptions, key, pre, invocations>>

\* const result = await validate(key, request), then lines 50-92 up to the
\* next await
ValidateReturns(r, res) ==
    /\ pc[r] = "validate"
    /\ result' = [result EXCEPT ![r] = Some(res)]
    /\ LET tr == Append(trace[r], Ev("validateReturned", key[r], Some(res), None)) IN
       IF IsSome(Config(options).onValidation)
       THEN Await(r, "onValidation", None,
                  Append(tr, onValidationCall(options, Get(key[r]), res)))
       ELSE Perform(r, ValidatedStep(options, guardOptions[r], res),
                    Get(key[r]), res, tr)
    /\ UNCHANGED <<call, ret, options, request, entry, guardOptions, key, pre, invocations>>

\* try { result = await validate(key, request) } catch { result = { valid: false } }:
\* a failing validator is taken for an invalid key
ValidateThrows_TakenAsInvalid(r) ==
    /\ pc[r] = "validate"
    /\ Perform(r, ValidatedStep(options, guardOptions[r],
                                [valid |-> FALSE, scopes |-> None, rateLimit |-> None,
                                 metadata |-> None, errorMessage |-> None]),
               Get(key[r]), None,
               Append(trace[r], Ev("validateThrew", None, None, None)))
    /\ UNCHANGED <<call, ret, options, request, entry, guardOptions, key, result, pre, invocations>>

\* validate rejects: the await throws and nothing catches it
ValidateThrows(r) ==
    /\ pc[r] = "validate"
    /\ Finish(r, "validateFailed", None,
              Append(trace[r], Ev("validateThrew", None, None, None)), decor[r])
    /\ UNCHANGED <<call, ret, options, request, entry, guardOptions, key, result, pre, invocations>>

\* `key` kept in a variable of the plugin instead of a local of the hook: after
\* the await it holds the key of the other request in flight
OnValidationReturns_KeyShared(r) ==
    /\ pc[r] = "onValidation"
    /\ LET other == CHOOSE q \in Requests : q # r
           k == IF key[other] # None THEN key[other] ELSE key[r]
       IN  Perform(r, ValidatedStep(options, guardOptions[r], Get(result[r])),
                   Get(k), Get(result[r]),
                   Append(trace[r], Ev("onValidationReturned", None, None, None)))
    /\ UNCHANGED <<call, ret, options, request, entry, guardOptions, key, result, pre, invocations>>

\* the hook is called a second time after its first completion
OnValidationReturns_CallsHookAgain(r) ==
    /\ pc[r] = "onValidation"
    /\ LET tr == Append(trace[r], Ev("onValidationReturned", None, None, None)) IN
       IF Cardinality({i \in 1..Len(trace[r]) : trace[r][i].op = "onValidation"}) < 2
       THEN Await(r, "onValidation", None,
                  Append(tr, onValidationCall(options, Get(key[r]), Get(result[r]))))
       ELSE Perform(r, ValidatedStep(options, guardOptions[r], Get(result[r])),
                    Get(key[r]), Get(result[r]), tr)
    /\ UNCHANGED <<call, ret, options, request, entry, guardOptions, key, result, pre, invocations>>

\* await onValidation(key, result, request) completes
OnValidationReturns(r) ==
    /\ pc[r] = "onValidation"
    /\ Perform(r, ValidatedStep(options, guardOptions[r], Get(result[r])),
               Get(key[r]), Get(result[r]),
               Append(trace[r], Ev("onValidationReturned", None, None, None)))
    /\ UNCHANGED <<call, ret, options, request, entry, guardOptions, key, result, pre, invocations>>

\* try { await onValidation(key, result, request) } catch {}: the failure is
\* swallowed and the guard goes on
OnValidationThrows_Isolated(r) ==
    /\ pc[r] = "onValidation"
    /\ Perform(r, ValidatedStep(options, guardOptions[r], Get(result[r])),
               Get(key[r]), Get(result[r]),
               Append(trace[r], Ev("onValidationThrew", None, None, None)))
    /\ UNCHANGED <<call, ret, options, request, entry, guardOptions, key, result, pre, invocations>>

\* onValidation rejects: the await throws and nothing catches it
OnValidationThrows(r) ==
    /\ pc[r] = "onValidation"
    /\ Finish(r, "hookFailed", None,
              Append(trace[r], Ev("onValidationThrew", None, None, None)), decor[r])
    /\ UNCHANGED <<call, ret, options, request, entry, guardOptions, key, result, pre, invocations>>

\* await errorHandler(error, request, reply) without the `return`: the guard
\* falls through to `throw error`
ErrorHandlerReturns_Rethrows(r) ==
    /\ pc[r] = "errorHandler"
    /\ Finish(r, "thrown", error[r],
              Append(trace[r], Ev("errorHandlerReturned", None, None, None)), decor[r])
    /\ UNCHANGED <<call, ret, options, request, entry, guardOptions, key, result, pre, invocations>>

\* await errorHandler(error, request, reply) without the `return` in the
\* invalid-key branch: the guard goes on to the scope check and the decoration
ErrorHandlerReturns_Continues(r) ==
    /\ pc[r] = "errorHandler"
    /\ LET tr == Append(trace[r], Ev("errorHandlerReturned", None, None, None)) IN
       IF IsSome(result[r]) /\ ~Get(result[r]).valid
          /\ validateScopes(providedScopes(Get(result[r])), guardOptions[r].scopes,
                            guardOptions[r].anyScope).valid
       THEN Finish(r, "authenticated", error[r],
                   Append(Append(tr, Ev("validateScopes", None, None, None)),
                          Ev("decorate", None, None, None)),
                   Populate(decor[r], options, Get(key[r]), Get(result[r])))
       ELSE Finish(r, "handled", error[r], tr, decor[r])
    /\ UNCHANGED <<call, ret, options, request, entry, guardOptions, key, result, pre, invocations>>

\* await errorHandler(error, request, reply) completes; return
ErrorHandlerReturns(r) ==
    /\ pc[r] = "errorHandler"
    /\ Finish(r, "handled", error[r],
              Append(trace[r], Ev("errorHandlerReturned", None, None, None)), decor[r])
    /\ UNCHANGED <<call, ret, options, request, entry, guardOptions, key, result, pre, invocations>>

\* errorHandler rejects: the await throws
ErrorHandlerThrows(r) ==
    /\ pc[r] = "errorHandler"
    /\ Finish(r, "handlerFailed", error[r],
              Append(trace[r], Ev("errorHandlerThrew", None, None, None)), decor[r])
    /\ UNCHANGED <<call, ret, options, request, entry, guardOptions, key, result, pre, invocations>>

NoGuardOptions == [scopes |-> None, anyScope |-> None, allowAnonymous |-> None]

\* the request of Sequential drawn from `reqs`, the other request empty
OneAtATime(reqs) ==
    { [r \in Requests |-> IF r \in Sequential THEN q ELSE Req(NoFields, NoFields)] :
        q \in reqs }

\* no exported function has been called directly
NoCall == [fn |-> "none"]

\* fastifyApiKeyPlugin has registered the decorators; no guard has run
Init ==
    /\ options \in OptionsSet
    /\ request \in OneAtATime(RequestSet)
    /\ decor = [r \in Requests |-> DecoratedRequest(options)]
    /\ pc = [r \in Requests |-> "idle"]
    /\ entry = [r \in Requests |-> NoEntry]
    /\ guardOptions = [r \in Requests |-> NoGuardOptions]
    /\ key = [r \in Requests |-> None]
    /\ result = [r \in Requests |-> None]
    /\ outcome = [r \in Requests |-> "pending"]
    /\ error = [r \in Requests |-> None]
    /\ trace = [r \in Requests |-> << >>]
    /\ pre = decor
    /\ invocations = [r \in Requests |-> 0]
    /\ call = NoCall
    /\ ret = None

Next ==
    \E r \in Sequential :
        \/ \E gopts \in GuardOptionsSet : ApiKey(r, gopts)
        \/ \E scopes \in RequireApiKeyArgs : RequireApiKey(r, scopes)
        \/ \E res \in ValidationResults : ValidateReturns(r, res)
        \/ ValidateThrows(r)
        \/ OnValidationReturns(r)
        \/ OnValidationThrows(r)
        \/ ErrorHandlerReturns(r)
        \/ ErrorHandlerThrows(r)

Spec == Init /\ [][Next]_vars

-----------------------------------------------------------------------------
(* The guard with callbacks that complete: the validator returns a result, *)
(* the hook and the error handler return                                   *)

ValidateCompletes ==
    \E r \in Sequential : \E res \in ValidationResults : ValidateReturns(r, res)
OnValidationCompletes == \E r \in Sequential : OnValidationReturns(r)
ErrorHandlerCompletes == \E r \in Sequential : ErrorHandlerReturns(r)

NextLive ==
    \/ \E r \in Sequential : \E gopts \in GuardOptionsSet : ApiKey(r, gopts)
    \/ \E r \in Sequential : \E scopes \in RequireApiKeyArgs : RequireApiKey(r, scopes)
    \/ ValidateCompletes
    \/ OnValidationCompletes
    \/ ErrorHandlerCompletes

\* a pending promise that settles has its continuation run by the event loop
SpecLive ==
    /\ Init
    /\ [][NextLive]_vars
    /\ WF_vars(ValidateCompletes)
    /\ WF_vars(OnValidationCompletes)
    /\ WF_vars(ErrorHandlerCompletes)

-----------------------------------------------------------------------------
(* Two requests in flight at once: the host interleaves their guard        *)
(* invocations at the awaits                                               *)

ConcurrentOptions ==
    { [sources |-> None, errorHandler |-> Some("errorHandler"),
       decoratorName |-> None, allowAnonymous |-> None,
       onValidation |-> Some("onValidation"), timingSafe |-> Some(FALSE)],
      [sources |-> Some(CustomSources), errorHandler |-> None,
       decoratorName |-> Some("auth"), allowAnonymous |-> Some(TRUE),
       onValidation |-> None, timingSafe |-> None] }

\* two requests with different keys, or one of them without a key
ConcurrentRequests ==
    { [r \in Requests |-> IF r \in Sequential THEN Req(Header(Str(<<"s", "k">>)), NoFields)
                          ELSE q] :
        q \in { Req(Header(Str(<<"B", " ", "s", "k", " ">>)), Query(Str(<<"q">>))),
                Req(NoFields, NoFields) } }

ConcurrentGuardOptions ==
    { NoGuardOptions,
      [scopes |-> Some(<<"read", "write">>), anyScope |-> None, allowAnonymous |-> None],
      [scopes |-> None, anyScope |-> Some(<<"admin", "write">>),
       allowAnonymous |-> Some(TRUE)] }

ConcurrentResults ==
    { [valid |-> TRUE, scopes |-> Some(<<"read", "write">>),
       rateLimit |-> Some(RateLimit), metadata |-> None, errorMessage |-> None],
      [valid |-> TRUE, scopes |-> Some(<<"read">>),
       rateLimit |-> None, metadata |-> Some(Metadata), errorMessage |-> None],
      [valid |-> FALSE, scopes |-> None, rateLimit |-> None,
       metadata |-> None, errorMessage |-> Some("Key has expired")] }

InitConcurrent ==
    /\ options \in ConcurrentOptions
    /\ request \in ConcurrentRequests
    /\ decor = [r \in Requests |-> DecoratedRequest(options)]
    /\ pc = [r \in Requests |-> "idle"]
    /\ entry = [r \in Requests |-> NoEntry]
    /\ guardOptions = [r \in Requests |-> NoGuardOptions]
    /\ key = [r \in Requests |-> None]
    /\ result = [r \in Requests |-> None]
    /\ outcome = [r \in Requests |-> "pending"]
    /\ error = [r \in Requests |-> None]
    /\ trace = [r \in Requests |-> << >>]
    /\ pre = decor
    /\ invocations = [r \in Requests |-> 0]
    /\ call = NoCall
    /\ ret = None

NextConcurrent ==
    \E r \in Requests :
        \/ \E gopts \in ConcurrentGuardOptions : ApiKey(r, gopts)
        \/ \E res \in ConcurrentResults : ValidateReturns(r, res)
        \/ ValidateThrows(r)
        \/ OnValidationReturns(r)
        \/ OnValidationThrows(r)
        \/ ErrorHandlerReturns(r)
        \/ ErrorHandlerThrows(r)

SpecConcurrent == InitConcurrent /\ [][NextConcurrent]_vars

-----------------------------------------------------------------------------
(* A route with a chain of guards: each guard of the chain runs on the     *)
(* request once the one before it has ended                                *)

\* the guards of the longest chain
MaxChain == MaxInvocations + 2

\* the request carries a key or none
ChainedRequests ==
    OneAtATime({ Req(Header(Str(<<"s", "k">>)), NoFields), Req(NoFields, NoFields) })

InitChained ==
    /\ options \in ConcurrentOptions
    /\ request \in ChainedRequests
    /\ decor = [r \in Requests |-> DecoratedRequest(options)]
    /\ pc = [r \in Requests |-> "idle"]
    /\ entry = [r \in Requests |-> NoEntry]
    /\ guardOptions = [r \in Requests |-> NoGuardOptions]
    /\ key = [r \in Requests |-> None]
    /\ result = [r \in Requests |-> None]
    /\ outcome = [r \in Requests |-> "pending"]
    /\ error = [r \in Requests |-> None]
    /\ trace = [r \in Requests |-> << >>]
    /\ pre = decor
    /\ invocations = [r \in Requests |-> 0]
    /\ call = NoCall
    /\ ret = None

\* the next guard of the chain, built by fastify.apiKey(gopts)
ChainedApiKey(r, gopts) ==
    /\ GuardWithin(r, gopts, MaxChain)
    /\ entry' = [entry EXCEPT ![r] = Entry("apiKey", gopts.scopes)]

NextChained ==
    \E r \in Sequential :
        \/ \E gopts \in ConcurrentGuardOptions : ChainedApiKey(r, gopts)
        \/ \E res \in ConcurrentResults : ValidateReturns(r, res)
        \/ ValidateThrows(r)
        \/ OnValidationReturns(r)
        \/ OnValidationThrows(r)
        \/ ErrorHandlerReturns(r)
        \/ ErrorHandlerThrows(r)

SpecChained == InitChained /\ [][NextChained]_vars

-----------------------------------------------------------------------------
(* extractApiKey over bounded requests and source lists                    *)

MaxLen == 3
MaxSources == 2

\* the characters of the values: a prefix letter, a blank, a key letter
Alphabet == {"B", " ", "s"}

Strings == UNION { [1..n -> Alphabet] : n \in 0..MaxLen }

\* request.headers['x-api-key']: absent, a string, or a repeated header
HeaderValues ==
    {Undefined} \cup {Str(v) : v \in Strings}
        \cup {Arr(<< <<"s">>, <<"B">> >>)}

Cookies(v) == Some([n \in {<<"k">>} |-> v])

\* the query, body and cookies a request carries beside its header
RequestRests ==
    { [query |-> NoFields, body |-> NoBody, cookies |-> None],
      [query |-> Query(Str(<<"q">>)), body |-> NoBody, cookies |-> None],
      [query |-> Query(Num), body |-> NoBody, cookies |-> None],
      [query |-> Query(Arr(<< <<"q">> >>)), body |-> Body(NoFields), cookies |-> None],
      [query |-> Query(Obj), body |-> Body([n \in {<<"k">>} |-> Str(<<"b">>)]),
       cookies |-> None],
      [query |-> Query(Str(<<" ">>)), body |-> NullBody, cookies |-> Cookies(Str(<<"c">>))],
      [query |-> NoFields, body |-> Body([n \in {<<"k">>} |-> Num]),
       cookies |-> Cookies(Str(<<"c">>))],
      [query |-> Query(Str(<<"q">>)), body |-> Body([n \in {<<"k">>} |-> Obj]),
       cookies |-> Some(NoFields)],
      [query |-> NoFields, body |-> Body([n \in {<<"k">>} |-> Arr(<< <<"b">> >>)]),
       cookies |-> None],
      [query |-> Query(Str(<<" ", "q">>)),
       body |-> Body([n \in {<<"k">>} |-> Str(<<"b", " ">>)]),
       cookies |-> Cookies(Str(<<"c">>))] }

\* the rests every header value is combined with: nothing beside the header,
\* and a key in each of the query, the body and the cookies
HeaderSweepRests ==
    { x \in RequestRests :
        \/ x.query = NoFields /\ x.body = NoBody /\ x.cookies = None
        \/ x.query = Query(Str(<<" ", "q">>)) }

\* the header values every rest is combined with
RestSweepHeaders == {Undefined, Str(<<"s">>), Arr(<< <<"s">>, <<"B">> >>)}

ExtractRequests ==
    { [headers |-> Header(x[1]), query |-> Some(x[2].query), body |-> x[2].body,
       cookies |-> x[2].cookies] :
        x \in (HeaderValues \X HeaderSweepRests) \cup (RestSweepHeaders \X RequestRests) }

\* the header name written in capitals
XAPIKEY == <<"X", "-", "A", "P", "I", "-", "K", "E", "Y">>

\* the source descriptors an application may configure
Descriptors ==
    { [type |-> "header", name |-> XApiKey, prefix |-> p] :
        p \in {None, Some(<< >>), Some(<<"B">>), Some(<<"B", " ">>)} }
    \cup
    { [type |-> "header", name |-> XAPIKEY, prefix |-> None] }
    \cup
    { [type |-> t, name |-> <<"k">>, prefix |-> None] : t \in {"query", "body", "cookie"} }

SourceLists == UNION { [1..n -> Descriptors] : n \in 0..MaxSources }

\* the plugin registered with each source list and the defaults otherwise
InitExtract ==
    /\ options \in { [sources |-> Some(l), errorHandler |-> None,
                       decoratorName |-> None, allowAnonymous |-> None,
                       onValidation |-> None, timingSafe |-> None] :
                         l \in SourceLists }
    /\ request \in OneAtATime(ExtractRequests)
    /\ decor = [r \in Requests |-> DecoratedRequest(options)]
    /\ pc = [r \in Requests |-> "idle"]
    /\ entry = [r \in Requests |-> NoEntry]
    /\ guardOptions = [r \in Requests |-> NoGuardOptions]
    /\ key = [r \in Requests |-> None]
    /\ result = [r \in Requests |-> None]
    /\ outcome = [r \in Requests |-> "pending"]
    /\ error = [r \in Requests |-> None]
    /\ trace = [r \in Requests |-> << >>]
    /\ pre = decor
    /\ invocations = [r \in Requests |-> 0]
    /\ call = NoCall
    /\ ret = None

\* the guard runs extractApiKey(request, sources) (plugin.ts line 33)
NextExtract == \E r \in Sequential : ApiKey(r, NoGuardOptions)

SpecExtract == InitExtract /\ [][NextExtract]_vars

-----------------------------------------------------------------------------
(* The exported functions called directly: validateScopes, hasAllScopes,   *)
(* hasAnyScope, the error classes                                          *)

MaxScopes == 2
MaxRetryAfter == 2
MaxUnits == 2
MaxKeyLength == 4

ScopeNames == {"read", "write", "admin"}

\* string[] arguments
ScopeArgs == UNION { [1..n -> ScopeNames] : n \in 0..MaxScopes }

\* string[] | undefined arguments
OptScopeArgs == {None} \cup {Some(l) : l \in ScopeArgs}

CodeUnits == {"0061", "0062", "00E9"} \cup HighSurrogates \cup LowSurrogates

CompareStrings == UNION { [1..n -> CodeUnits] : n \in 0..MaxUnits }

\* what a caller may pass for a string: a string, null, undefined, a number
CompareArgs == {Str(v) : v \in CompareStrings} \cup {Null, Undefined, Num}

\* the guard's variables stay as the plugin registration left them
GuardIdle ==
    UNCHANGED <<options, request, decor, pc, entry, guardOptions, key, result,
                outcome, error, trace, pre, invocations>>

CallValidateScopes(provided, required, anyOf) ==
    /\ call' = [fn |-> "validateScopes", provided |-> provided,
                required |-> required, anyOf |-> anyOf]
    /\ ret' = Some(validateScopes(provided, required, anyOf))
    /\ GuardIdle

CallHasAllScopes(provided, required) ==
    /\ call' = [fn |-> "hasAllScopes", provided |-> provided, required |-> required]
    /\ ret' = Some(hasAllScopes(provided, required))
    /\ GuardIdle

CallHasAnyScope(provided, required) ==
    /\ call' = [fn |-> "hasAnyScope", provided |-> provided, required |-> required]
    /\ ret' = Some(hasAnyScope(provided, required))
    /\ GuardIdle

CallTimingSafeCompare(a, b) ==
    /\ call' = [fn |-> "timingSafeCompare", a |-> a, b |-> b]
    /\ ret' = Some(timingSafeCompare(a, b))
    /\ GuardIdle

\* byte values whose six-bit groups reach both ends of the alphabet and its
\* two non-alphanumeric characters
ByteValues == {0, 251, 255}

\* randomBytes(n): any n bytes; beyond MaxKeyLength bytes, n times one value
randomBytes(n) ==
    IF n <= MaxKeyLength
    THEN [1..n -> ByteValues]
    ELSE { [i \in 1..n |-> b] : b \in ByteValues }

\* the options generateApiKey is called with
GenerateOptions ==
    [prefix : {None, Some(<< >>), Some(<<"s", "k">>)},
     length : {None} \cup {Some(n) : n \in 0..MaxKeyLength}]

CallGenerateApiKey(opts) ==
    \E bytes \in randomBytes(ByteCount(GenLength(opts))) :
        /\ call' = [fn |-> "generateApiKey", prefix |-> opts.prefix,
                    length |-> opts.length, bytes |-> bytes]
        /\ ret' = Some(generateApiKey(opts, bytes))
        /\ GuardIdle

\* new X(...) followed by toJSON()
Constructed(kind, e) ==
    /\ call' = [fn |-> "new", kind |-> kind]
    /\ ret' = Some([error |-> e, json |-> toJSON(e)])
    /\ GuardIdle

NewMissingApiKeyError == Constructed("MissingApiKey", MissingApiKeyError)

NewInvalidApiKeyError(message) == Constructed("InvalidApiKey", InvalidApiKeyError(message))

NewInsufficientScopesError(required, provided) ==
    Constructed("InsufficientScopes", InsufficientScopesError(required, provided))

NewRateLimitExceededError(retryAfter) ==
    Constructed("RateLimitExceeded", RateLimitExceededError(retryAfter))

InitUtils ==
    /\ options = [sources |-> None, errorHandler |-> None, decoratorName |-> None,
                  allowAnonymous |-> None, onValidation |-> None, timingSafe |-> None]
    /\ request = [r \in Requests |-> Req(NoFields, NoFields)]
    /\ decor = [r \in Requests |-> DecoratedRequest(options)]
    /\ pc = [r \in Requests |-> "idle"]
    /\ entry = [r \in Requests |-> NoEntry]
    /\ guardOptions = [r \in Requests |-> NoGuardOptions]
    /\ key = [r \in Requests |-> None]
    /\ result = [r \in Requests |-> None]
    /\ outcome = [r \in Requests |-> "pending"]
    /\ error = [r \in Requests |-> None]
    /\ trace = [r \in Requests |-> << >>]
    /\ pre = decor
    /\ invocations = [r \in Requests |-> 0]
    /\ call = NoCall
    /\ ret = None

\* a behaviour makes one call
NextUtils ==
    /\ call = NoCall
    /\ \/ \E provided \in ScopeArgs, required, anyOf \in OptScopeArgs :
             CallValidateScopes(provided, required, anyOf)
       \/ \E provided, required \in ScopeArgs : CallHasAllScopes(provided, required)
       \/ \E provided, required \in ScopeArgs : CallHasAnyScope(provided, required)
       \/ \E a, b \in CompareArgs : CallTimingSafeCompare(a, b)
       \/ \E opts \in GenerateOptions : CallGenerateApiKey(opts)
       \/ NewMissingApiKeyError
       \/ \E message \in {None, Some(""), Some("Key has expired")} :
             NewInvalidApiKeyError(message)
       \/ \E required, provided \in ScopeArgs :
             NewInsufficientScopesError(required, provided)
       \/ \E retryAfter \in 0..MaxRetryAfter : NewRateLimitExceededError(retryAfter)

SpecUtils == InitUtils /\ [][NextUtils]_vars

-----------------------------------------------------------------------------
(* Vocabulary of the properties                                            *)

Range(l) == {l[i] : i \in 1..Len(l)}

HasEvent(r, op) == \E i \in 1..Len(trace[r]) : trace[r][i].op = op

CountEvents(r, op) == Cardinality({i \in 1..Len(trace[r]) : trace[r][i].op = op})

\* the Authentication Context under the configured decorator name
DecoratorName == IF IsSome(options.decoratorName) THEN Get(options.decoratorName) ELSE "apiKey"
ContextPresent(r) == IsSome(decor[r][DecoratorName])
HadContext(r) == IsSome(pre[r][DecoratorName])

\* the anonymous-access policy as the specification resolves it: the route's
\* override if set, else the plugin-wide default, else false
EffectivePolicy(r) ==
    IF guardOptions[r].allowAnonymous # None
    THEN guardOptions[r].allowAnonymous = Some(TRUE)
    ELSE options.allowAnonymous = Some(TRUE)

\* the route's scope requirements as sets (specification 4.2)
ScopesSatisfied(provided, required, anyOf) ==
    /\ Range(Coalesce(required, << >>)) \subseteq Range(provided)
    /\ \/ Range(Coalesce(anyOf, << >>)) = {}
       \/ Range(Coalesce(anyOf, << >>)) \cap Range(provided) # {}

Started(r) == pc[r] # "idle"
Done(r) == pc[r] = "done"
ValidatorReturned(r) == IsSome(result[r])
\* the guard got past the validation hook (or none is configured)
HookPassed(r) ==
    /\ ValidatorReturned(r)
    /\ pc[r] # "onValidation"
    /\ outcome[r] # "hookFailed"

-----------------------------------------------------------------------------
(* C1: after a guard invocation on a request that carried no              *)
(* Authentication Context, the context is present under the configured    *)
(* decorator name if and only if a key was extracted, the validator       *)
(* returned valid: true and the scope check ran and passed, whatever the  *)
(* anonymous-access policy; an anonymous pass-through or a rejection      *)
(* attaches no context.                                                   *)
C1_ContextIffAuthenticated ==
    \A r \in Requests :
        (Done(r) /\ ~HadContext(r)) =>
            /\ ContextPresent(r) <=>
                  /\ IsSome(key[r])
                  /\ ValidatorReturned(r)
                  /\ Get(result[r]).valid
                  /\ HasEvent(r, "validateScopes")
                  /\ ScopesSatisfied(Coalesce(Get(result[r]).scopes, << >>),
                                     guardOptions[r].scopes,
                                     guardOptions[r].anyScope)
            /\ outcome[r] \in {"anonymous", "thrown", "handled"}
                  => ~ContextPresent(r)

\* a key was authenticated although anonymous access is allowed
C1_Witness ==
    \E r \in Requests :
        /\ Done(r) /\ ~HadContext(r) /\ ContextPresent(r)
        /\ EffectivePolicy(r)
        /\ DecoratorName = "auth"

(* C2: when no source yields a key and the effective anonymous-access     *)
(* policy is false (the default), the guard rejects with MissingApiKey,   *)
(* code MISSING_API_KEY, status 401.                                      *)
C2_MissingKeyRejected ==
    \A r \in Requests :
        (Started(r) /\ ~IsSome(key[r]) /\ ~EffectivePolicy(r)) =>
            /\ error[r] # None
            /\ Get(error[r]).name = "MissingApiKeyError"
            /\ Get(error[r]).code = "MISSING_API_KEY"
            /\ Get(error[r]).statusCode = 401
            /\ \/ pc[r] = "errorHandler"
               \/ Done(r) /\ outcome[r] \in {"thrown", "handled", "handlerFailed"}

\* a keyless request was thrown MissingApiKey under the default policy
C2_Witness ==
    \E r \in Requests :
        /\ Done(r) /\ key[r] = None
        /\ options.allowAnonymous = None /\ guardOptions[r].allowAnonymous = None
        /\ outcome[r] = "thrown"
        /\ Get(error[r]).code = "MISSING_API_KEY"

\* a keyless request, or one whose key the validator found invalid
KeylessOrInvalid(r) ==
    \/ ~IsSome(key[r])
    \/ ValidatorReturned(r) /\ ~Get(result[r]).valid

\* the invocation passed the request through anonymously and touched nothing
PassedAnonymously(r) ==
    /\ outcome[r] = "anonymous"
    /\ error[r] = None
    /\ ~HasEvent(r, "errorHandler")
    /\ decor[r] = pre[r]

C4_RouteOverridesDefault ==
    \A r \in Requests :
        /\ (Started(r) /\ ~IsSome(key[r]))
              => ((Done(r) /\ outcome[r] = "anonymous") <=> EffectivePolicy(r))
        /\ (HookPassed(r) /\ ~Get(result[r]).valid)
              => ((Done(r) /\ outcome[r] = "anonymous") <=> EffectivePolicy(r))

\* a route that sets allowAnonymous: false under a plugin-wide true rejected
\* a keyless request
C4_Witness ==
    \E r \in Requests :
        /\ Done(r) /\ key[r] = None
        /\ options.allowAnonymous = Some(TRUE)
        /\ guardOptions[r].allowAnonymous = Some(FALSE)
        /\ outcome[r] = "thrown"

\* the message InvalidApiKey has to carry for the validator's result
ExpectedInvalidMessage(res) ==
    IF res.errorMessage # None THEN <<Get(res.errorMessage)>> ELSE <<"Invalid API key">>

RejectedWith(r, name, code, status) ==
    /\ error[r] # None
    /\ Get(error[r]).name = name
    /\ Get(error[r]).code = code
    /\ Get(error[r]).statusCode = status
    /\ \/ pc[r] = "errorHandler"
       \/ Done(r) /\ outcome[r] \in {"thrown", "handled", "handlerFailed"}

ScopesUnmet(r) ==
    /\ IsSome(key[r])
    /\ ValidatorReturned(r)
    /\ Get(result[r]).valid
    /\ ~ScopesSatisfied(Coalesce(Get(result[r]).scopes, << >>),
                        guardOptions[r].scopes, guardOptions[r].anyScope)

RequiredCheckFails(provided, required) ==
    ~(Range(Coalesce(required, << >>)) \subseteq Range(provided))

(* C7: for every combination of scopes and anyScope, the                 *)
(* InsufficientScopes error carries as requiredScopes the first failing  *)
(* requirement set (the route's scopes if the all-required check failed, *)
(* otherwise its anyScope) and as providedScopes the scopes the          *)
(* validator returned.                                                   *)
C7_FirstFailingRequirementSet ==
    \A r \in Requests :
        (error[r] # None /\ Get(error[r]).code = "INSUFFICIENT_SCOPES") =>
            LET provided == Coalesce(Get(result[r]).scopes, << >>) IN
            /\ Get(error[r]).providedScopes = Some(provided)
            /\ Get(error[r]).requiredScopes =
                  IF RequiredCheckFails(provided, guardOptions[r].scopes)
                  THEN guardOptions[r].scopes
                  ELSE guardOptions[r].anyScope

\* some event `op` precedes position i of the invocation's trace
Before(r, i, op) == \E j \in 1..(i - 1) : trace[r][j].op = op

(* C8: within one guard invocation the validator call completes before   *)
(* the validation hook is invoked, the hook completes before the scope   *)
(* check runs, and the scope check completes before any Authentication   *)
(* Context is attached to the request.                                   *)
C8_StrictStepOrder ==
    \A r \in Requests :
        /\ \A i \in 1..Len(trace[r]) :
              /\ trace[r][i].op = "onValidation"
                    => Before(r, i, "validateReturned")
              /\ trace[r][i].op = "validateScopes"
                    => /\ Before(r, i, "validateReturned")
                       /\ options.onValidation # None
                             => Before(r, i, "onValidationReturned")
              /\ trace[r][i].op = "decorate"
                    => Before(r, i, "validateScopes")
        /\ decor[r] # pre[r] => HasEvent(r, "decorate")
        /\ pc[r] \in {"validate", "onValidation"}
              => /\ decor[r] = pre[r]
                 /\ ~HasEvent(r, "validateScopes")

\* a context was attached after validator, hook and scope check, in that order
C8_Witness ==
    \E r \in Requests :
        /\ Done(r) /\ ContextPresent(r) /\ decor[r] # pre[r]
        /\ Len(trace[r]) = 6
        /\ trace[r][2].op = "validateReturned"
        /\ trace[r][3].op = "onValidation"
        /\ trace[r][4].op = "onValidationReturned"
        /\ trace[r][5].op = "validateScopes"
        /\ trace[r][6].op = "decorate"

C10_HookFailurePropagates ==
    \A r \in Requests :
        HasEvent(r, "onValidationThrew") =>
            /\ Done(r)
            /\ outcome[r] = "hookFailed"
            /\ error[r] = None
            /\ ~HasEvent(r, "errorHandler")
            /\ ~HasEvent(r, "validateScopes")
            /\ ~HasEvent(r, "decorate")
            /\ decor[r] = pre[r]
            /\ trace[r][Len(trace[r])].op = "onValidationThrew"

\* the hook failed on a valid key whose scopes were met, with an error handler
\* configured
C10_Witness ==
    \E r \in Requests :
        /\ outcome[r] = "hookFailed"
        /\ Get(result[r]).valid
        /\ ScopesSatisfied(Coalesce(Get(result[r]).scopes, << >>),
                           guardOptions[r].scopes, guardOptions[r].anyScope)
        /\ options.errorHandler # None
        /\ ~ContextPresent(r)

(* C11: if the validator callback itself fails, the guard invocation      *)
(* fails with that failure: the hook is not invoked, no scope check runs, *)
(* the error handler is not invoked, no structured error is built, no     *)
(* Authentication Context is attached, and the anonymous-access policy    *)
(* does not turn the failure into a pass-through.                         *)
C11_ValidatorFailurePropagates ==
    \A r \in Requests :
        HasEvent(r, "validateThrew") =>
            /\ Done(r)
            /\ outcome[r] = "validateFailed"
            /\ error[r] = None
            /\ result[r] = None
            /\ ~HasEvent(r, "onValidation")
            /\ ~HasEvent(r, "validateScopes")
            /\ ~HasEvent(r, "errorHandler")
            /\ ~HasEvent(r, "decorate")
            /\ decor[r] = pre[r]
            /\ trace[r][Len(trace[r])].op = "validateThrew"

\* the validator failed on an anonymous route of a plugin with a hook and an
\* error handler
C11_Witness ==
    \E r \in Requests :
        /\ outcome[r] = "validateFailed"
        /\ EffectivePolicy(r)
        /\ options.onValidation # None
        /\ options.errorHandler # None
        /\ IsSome(key[r])

StructuredErrors == {"MissingApiKeyError", "InvalidApiKeyError", "InsufficientScopesError"}

\* the guard raised a structured rejection
Rejected(r) == error[r] # None /\ Get(error[r]).name \in StructuredErrors

(* C12: every structured rejection (MissingApiKey, InvalidApiKey,         *)
(* InsufficientScopes) ends in exactly one of two outcomes: with a custom *)
(* error handler configured, the handler is invoked exactly once with     *)
(* that error and the guard does not throw the error; with none           *)
(* configured, the same error is thrown to the host and no handler runs.  *)
C12_HandledOrThrown ==
    \A r \in Requests :
        /\ Rejected(r) =>
              IF options.errorHandler # None
              THEN /\ CountEvents(r, "errorHandler") = 1
                   /\ \A i \in 1..Len(trace[r]) :
                         trace[r][i].op = "errorHandler" => trace[r][i].error = error[r]
                   /\ outcome[r] # "thrown"
                   /\ Done(r) => outcome[r] \in {"handled", "handlerFailed"}
              ELSE /\ CountEvents(r, "errorHandler") = 0
                   /\ Done(r)
                   /\ outcome[r] = "thrown"
        /\ outcome[r] \in {"thrown", "handled", "handlerFailed"} => Rejected(r)
        /\ HasEvent(r, "errorHandler") => Rejected(r)

\* the handler took an InsufficientScopes rejection and the guard returned
C12_Witness ==
    \E r \in Requests :
        /\ Done(r) /\ outcome[r] = "handled"
        /\ Get(error[r]).code = "INSUFFICIENT_SCOPES"
        /\ CountEvents(r, "errorHandler") = 1

\* the position of the error handler call in the invocation's trace
HandlerCalls(r) == {i \in 1..Len(trace[r]) : trace[r][i].op = "errorHandler"}

(* C13: once the custom error handler has been invoked for a rejection,   *)
(* the pipeline is terminated there: no later step of that invocation     *)
(* runs (no validator or hook call after a MissingApiKey dispatch, no     *)
(* scope check after an InvalidApiKey dispatch) and no Authentication     *)
(* Context is attached.                                                   *)
C13_HandlerTerminatesPipeline ==
    \A r \in Requests :
        \A i \in HandlerCalls(r) :
            /\ \A j \in (i + 1)..Len(trace[r]) :
                  /\ j = i + 1
                  /\ trace[r][j].op \in {"errorHandlerReturned", "errorHandlerThrew"}
            /\ decor[r] = pre[r]
            /\ ~HasEvent(r, "decorate")
            /\ outcome[r] # "authenticated"
            /\ Get(error[r]).code = "MISSING_API_KEY" =>
                  /\ ~HasEvent(r, "validate")
                  /\ ~HasEvent(r, "onValidation")
                  /\ result[r] = None
            /\ Get(error[r]).code = "INVALID_API_KEY" => ~HasEvent(r, "validateScopes")

\* the handler returned from an InvalidApiKey dispatch on a route whose scope
\* requirements the invalid result would have met
C13_Witness ==
    \E r \in Requests :
        /\ Done(r) /\ outcome[r] = "handled"
        /\ Get(error[r]).code = "INVALID_API_KEY"
        /\ ScopesSatisfied(Coalesce(Get(result[r]).scopes, << >>),
                           guardOptions[r].scopes, guardOptions[r].anyScope)
        /\ trace[r][Len(trace[r])].op = "errorHandlerReturned"

Redacted == <<"[REDACTED]">>

\* the Authentication Context attached to the request
Context(r) == Get(decor[r][DecoratorName])

(* C14: on a successful authentication the key field of the attached      *)
(* Authentication Context is the constant '[REDACTED]' when timing-safe   *)
(* redaction is enabled (the default), and the literal extracted key,     *)
(* after prefix stripping and trimming, when it is disabled.              *)
C14_KeyRedaction ==
    \A r \in Requests :
        outcome[r] = "authenticated" =>
            /\ ContextPresent(r)
            /\ IsSome(key[r])
            /\ Context(r).key = IF options.timingSafe = Some(FALSE)
                                THEN Get(key[r])
                                ELSE Redacted

\* redaction disabled: the header "B sk " under the prefix "B " gives the key "sk"
C14_Witness ==
    \E r \in Requests :
        /\ outcome[r] = "authenticated"
        /\ options.timingSafe = Some(FALSE)
        /\ options.sources = Some(CustomSources)
        /\ request[r].headers = Header(Str(<<"B", " ", "s", "k", " ">>))
        /\ Context(r).key = <<"s", "k">>

(* C15: on a successful authentication the context is attached under the  *)
(* configured decorator name (default apiKey) with scopes = the scopes    *)
(* the validator returned (the empty list if none), rateLimit = the       *)
(* validator's value if present else absent, metadata = the validator's   *)
(* value or an empty mapping; the same scope list is attached under       *)
(* apiKeyScopes.                                                          *)
C15_ContextContents ==
    \A r \in Requests :
        outcome[r] = "authenticated" =>
            LET res == Get(result[r])
                sc  == IF res.scopes = None THEN << >> ELSE Get(res.scopes)
            IN  /\ DOMAIN decor[r] = {DecoratorName, "apiKeyScopes"}
                /\ ContextPresent(r)
                /\ Context(r).scopes = sc
                /\ Context(r).rateLimit = res.rateLimit
                /\ Context(r).metadata =
                      IF res.metadata = None THEN EmptyObject ELSE Get(res.metadata)
                /\ decor[r]["apiKeyScopes"] = Some(sc)

\* a custom decorator name, a validator result carrying a rate limit and scopes
\* but no metadata
C15_Witness ==
    \E r \in Requests :
        /\ outcome[r] = "authenticated"
        /\ options.decoratorName = Some("auth")
        /\ Get(result[r]).rateLimit = Some(RateLimit)
        /\ Get(result[r]).metadata = None
        /\ Get(decor[r]["auth"]).scopes = <<"read", "write">>
        /\ Get(decor[r]["auth"]).metadata = EmptyObject

\* the invocation's guard was built by fastify.requireApiKey
ViaRequireApiKey(r) == entry[r].factory = "requireApiKey"

\* the scope list given to requireApiKey, as a set
RequiredByEntry(r) == Range(Coalesce(entry[r].scopes, << >>))

(* C16: a guard built by requireApiKey(S) behaves as apiKey({scopes: S}): *)
(* S is the all-of requirement, there is no any-of requirement and the    *)
(* anonymous-access policy is the plugin-wide default.                    *)
C16_RequireApiKeyIsScopesShorthand ==
    \A r \in Requests :
        ViaRequireApiKey(r) =>
            /\ guardOptions[r] =
                  [scopes |-> entry[r].scopes, anyScope |-> None, allowAnonymous |-> None]
            /\ outcome[r] = "anonymous" => options.allowAnonymous = Some(TRUE)
            /\ (Started(r) /\ key[r] = None /\ options.allowAnonymous # Some(TRUE)) =>
                  error[r] # None /\ Get(error[r]).code = "MISSING_API_KEY"
            /\ (Done(r) /\ HookPassed(r) /\ Get(result[r]).valid) =>
                  LET provided == Range(Coalesce(Get(result[r]).scopes, << >>)) IN
                  IF RequiredByEntry(r) \subseteq provided
                  THEN outcome[r] = "authenticated"
                  ELSE /\ error[r] # None
                       /\ Get(error[r]).code = "INSUFFICIENT_SCOPES"
                       /\ Get(error[r]).requiredScopes = entry[r].scopes
                       /\ outcome[r] # "authenticated"

\* requireApiKey(['read', 'write']) rejected a valid key holding only 'read'
C16_Witness ==
    \E r \in Requests :
        /\ ViaRequireApiKey(r)
        /\ entry[r].scopes = Some(<<"read", "write">>)
        /\ Done(r)
        /\ ValidatorReturned(r)
        /\ Get(result[r]).valid
        /\ Get(result[r]).scopes = Some(<<"read">>)
        /\ error[r] # None
        /\ Get(error[r]).code = "INSUFFICIENT_SCOPES"

-----------------------------------------------------------------------------
(* Key Extractor: the specification's reading (4.1)                        *)

\* the configured source list
Sources == IF options.sources = None THEN DEFAULT_SOURCES ELSE Get(options.sources)

\* the JavaScript value at the location a source descriptor names
FieldOf(req, src) ==
    IF src.type = "header" THEN
        LET h == Lookup(req.headers, ToLowerCase(src.name)) IN
        IF h.t = "array" /\ h.a # << >> THEN Str(Head(h.a)) ELSE h
    ELSE IF src.type = "query" THEN
        (IF req.query = None THEN Undefined ELSE Lookup(Get(req.query), src.name))
    ELSE IF src.type = "body" THEN
        (IF req.body.t = "object" THEN Lookup(req.body.f, src.name) ELSE Undefined)
    ELSE
        (IF req.cookies = None THEN Undefined ELSE Lookup(Get(req.cookies), src.name))

\* the string found there; the empty string when there is none
RawString(req, src) ==
    IF FieldOf(req, src).t = "string" THEN FieldOf(req, src).s ELSE << >>

NonBlank(v) == {i \in 1..Len(v) : v[i] \notin WhiteSpace}
Least(S) == CHOOSE i \in S : \A j \in S : i <= j
Greatest(S) == CHOOSE i \in S : \A j \in S : j <= i

\* v without its leading and trailing whitespace
Trimmed(v) ==
    IF NonBlank(v) = {} THEN << >> ELSE SubSeq(v, Least(NonBlank(v)), Greatest(NonBlank(v)))

\* v is p followed by something
HasPrefix(v, p) == Len(p) <= Len(v) /\ \A i \in 1..Len(p) : v[i] = p[i]

\* v without its first n characters
Drop(v, n) == [i \in 1..(Len(v) - n) |-> v[i + n]]

PrefixOf(src) == IF src.prefix = None THEN << >> ELSE Get(src.prefix)

\* the post-processed value of a source: prefix removed if it matches, trimmed
Candidate(req, src) ==
    LET v == RawString(req, src) IN
    Trimmed(IF HasPrefix(v, PrefixOf(src)) THEN Drop(v, Len(PrefixOf(src))) ELSE v)

\* the positions of the sources that yield a non-empty key
Yielding(req, srcs) == {i \in 1..Len(srcs) : Candidate(req, srcs[i]) # << >>}

FirstYield(req, srcs) ==
    IF Yielding(req, srcs) = {} THEN None
    ELSE Some(Candidate(req, srcs[Least(Yielding(req, srcs))]))

LastYield(req, srcs) ==
    IF Yielding(req, srcs) = {} THEN None
    ELSE Some(Candidate(req, srcs[Greatest(Yielding(req, srcs))]))

Reverse(l) == [i \in 1..Len(l) |-> l[Len(l) + 1 - i]]

(* C17: for every ordered source list and request, extractApiKey returns  *)
(* the post-processed value of the first source in list order that yields *)
(* a non-empty value, never a value of a later source; with the list      *)
(* reordered (reversed) the key of the source that now comes first is     *)
(* returned.                                                              *)
C17_FirstYieldingSourceWins ==
    \A r \in Requests :
        Started(r) =>
            /\ key[r] = FirstYield(request[r], Sources)
            /\ extractApiKey(request[r], Reverse(Sources)) = LastYield(request[r], Sources)

\* header and query both hold a key, the query source is listed first and wins;
\* the reversed list gives the header's key
C17_Witness ==
    \E r \in Requests :
        /\ Started(r)
        /\ Len(Sources) = 2
        /\ Sources[1].type = "query" /\ Sources[2].type = "header"
        /\ Yielding(request[r], Sources) = {1, 2}
        /\ key[r] = Some(<<"q">>)
        /\ extractApiKey(request[r], Reverse(Sources)) = Some(<<"s">>)

Blank(v) == \A i \in 1..Len(v) : v[i] \in WhiteSpace

\* the value of a source is missing, empty, whitespace only, or just the
\* configured prefix
YieldsNothing(req, src) ==
    \/ FieldOf(req, src).t # "string"
    \/ Blank(RawString(req, src))
    \/ RawString(req, src) = PrefixOf(src)

\* every source before position i yields nothing
NothingBefore(req, srcs, i) == \A j \in 1..(i - 1) : YieldsNothing(req, srcs[j])

(* C18: extractApiKey returns either absent or a non-empty string with no *)
(* leading or trailing whitespace; a source whose value is empty,         *)
(* whitespace only or only the configured prefix yields nothing and       *)
(* extraction continues with the next source; an empty source list, or    *)
(* one in which no source yields a value, gives absent.                   *)
C18_AbsentOrTrimmedNonEmpty ==
    \A r \in Requests :
        Started(r) =>
            /\ key[r] # None =>
                  LET k == Get(key[r]) IN
                  /\ k # << >>
                  /\ k[1] \notin WhiteSpace
                  /\ k[Len(k)] \notin WhiteSpace
            /\ (\A i \in 1..Len(Sources) : YieldsNothing(request[r], Sources[i]))
                  => key[r] = None
            /\ \A i \in 1..Len(Sources) :
                  (NothingBefore(request[r], Sources, i)
                     /\ Candidate(request[r], Sources[i]) # << >>)
                  => key[r] = Some(Candidate(request[r], Sources[i]))
            /\ Yielding(request[r], Sources) = {} => key[r] = None

\* the header holds only the prefix "B ", the query " q": the key is "q"
C18_Witness ==
    \E r \in Requests :
        /\ Started(r)
        /\ Len(Sources) = 2
        /\ Sources[1].type = "header" /\ Sources[1].prefix = Some(<<"B", " ">>)
        /\ RawString(request[r], Sources[1]) = <<"B", " ">>
        /\ Sources[2].type = "query"
        /\ RawString(request[r], Sources[2]) = <<" ", "q">>
        /\ key[r] = Some(<<"q">>)

\* the sources that come first in the list and carry a prefix
PrefixedFirst == Sources # << >> /\ PrefixOf(Sources[1]) # << >>

(* C19: for a source with a configured prefix, a value that starts with   *)
(* exactly that prefix has the prefix removed once from its front; a      *)
(* value that does not start with it is used whole, only trimmed, and no  *)
(* error is raised.                                                       *)
C19_PrefixRemovedOnceIfMatching ==
    \A r \in Requests :
        (Started(r) /\ PrefixedFirst) =>
            LET v == RawString(request[r], Sources[1])
                p == PrefixOf(Sources[1])
                expected == IF v = p \o Drop(v, Len(p))
                            THEN Trimmed(Drop(v, Len(p)))
                            ELSE Trimmed(v)
            IN  /\ expected # << >> => key[r] = Some(expected)
                /\ (expected = << >> /\ Len(Sources) = 1) => key[r] = None

\* "BBs" under the prefix "B" gives "Bs": the prefix is removed once
C19_Witness ==
    \E r \in Requests :
        /\ Started(r) /\ PrefixedFirst
        /\ PrefixOf(Sources[1]) = <<"B">>
        /\ RawString(request[r], Sources[1]) = <<"B", "B", "s">>
        /\ key[r] = Some(<<"B", "s">>)

\* a query parameter or body field that is not a plain string, or a body that
\* is missing or null
NotAString(req, src) ==
    \/ /\ src.type = "query"
       /\ Lookup(Get(req.query), src.name).t \in {"number", "array", "object"}
    \/ /\ src.type = "body"
       /\ \/ req.body.t \in {"undefined", "null"}
          \/ Lookup(req.body.f, src.name).t \in {"number", "array", "object"}

\* the source list without the sources at the positions in S
RECURSIVE Without(_, _, _)
Without(srcs, S, i) ==
    IF i > Len(srcs) THEN << >>
    ELSE (IF i \in S THEN << >> ELSE <<srcs[i]>>) \o Without(srcs, S, i + 1)

(* C20: a query parameter or body field whose value is not a plain string *)
(* (number, array, nested object), and a missing or null body, is treated *)
(* as absent for that source: extraction does not fail and goes on with   *)
(* the next source.                                                       *)
C20_NonStringTreatedAsAbsent ==
    \A r \in Requests :
        Started(r) =>
            LET skipped == {i \in 1..Len(Sources) : NotAString(request[r], Sources[i])}
            IN  /\ key[r] = FirstYield(request[r], Without(Sources, skipped, 1))
                /\ \A i \in skipped : Candidate(request[r], Sources[i]) = << >>
                /\ skipped = 1..Len(Sources) => key[r] = None

\* the query parameter is a nested object, the body field a string: the body's key
C20_Witness ==
    \E r \in Requests :
        /\ Started(r)
        /\ Len(Sources) = 2
        /\ Sources[1].type = "query" /\ Sources[2].type = "body"
        /\ NotAString(request[r], Sources[1])
        /\ Lookup(Get(request[r].query), <<"k">>).t = "object"
        /\ key[r] = Some(<<"b">>)

\* the capital and the small form of the letters of the header names
LetterPairs ==
    { <<"X", "x">>, <<"A", "a">>, <<"P", "p">>, <<"I", "i">>, <<"K", "k">>,
      <<"E", "e">>, <<"Y", "y">>, <<"B", "b">> }

SameLetter(a, b) == a = b \/ <<a, b>> \in LetterPairs \/ <<b, a>> \in LetterPairs

EqualIgnoringCase(a, b) ==
    Len(a) = Len(b) /\ \A i \in 1..Len(a) : SameLetter(a[i], b[i])

\* the first of the values a header holds; empty when it holds none
FirstHeaderValue(h) ==
    IF h.t = "string" THEN h.s
    ELSE IF h.t = "array" /\ h.a # << >> THEN h.a[1]
    ELSE << >>

(* C21: header extraction finds the configured header whatever letter     *)
(* case the source descriptor's name is written in, and when the header   *)
(* holds several values it uses the first one.                            *)
C21_HeaderCaseInsensitiveFirstValue ==
    \A r \in Requests :
        (Started(r) /\ Sources # << >> /\ Sources[1].type = "header") =>
            \A n \in DOMAIN request[r].headers :
                EqualIgnoringCase(n, Sources[1].name) =>
                    LET v == FirstHeaderValue(request[r].headers[n])
                        p == PrefixOf(Sources[1])
                        expected == Trimmed(IF HasPrefix(v, p) THEN Drop(v, Len(p)) ELSE v)
                    IN  expected # << >> => key[r] = Some(expected)

\* the descriptor names X-API-KEY, the request holds x-api-key twice: the
\* first value is the key
C21_Witness ==
    \E r \in Requests :
        /\ Started(r)
        /\ Sources # << >>
        /\ Sources[1].type = "header" /\ Sources[1].name = XAPIKEY
        /\ request[r].headers = Header(Arr(<< <<"s">>, <<"B">> >>))
        /\ key[r] = Some(<<"s">>)

-----------------------------------------------------------------------------
(* Scope Validator: the specification's reading (4.2)                      *)

Called(fn) == call.fn = fn
Returned == Get(ret)

\* an optional list as a set: absent is empty
SetOf(optList) == IF optList = None THEN {} ELSE Range(Get(optList))

\* the all-required check passes
AllRequiredHeld == SetOf(call.required) \subseteq Range(call.provided)

\* the any-of check passes
AnyOfHeld == SetOf(call.anyOf) = {} \/ SetOf(call.anyOf) \cap Range(call.provided) # {}

(* C22: for all provided, required and anyOf lists, validateScopes        *)
(* returns valid: true exactly when (required is absent or empty, or      *)
(* every element of required is in provided) and (anyOf is absent or      *)
(* empty, or some element of anyOf is in provided); a valid result        *)
(* carries no missing field.                                              *)
C22_ValidIffBothChecksPass ==
    Called("validateScopes") =>
        /\ Returned.valid <=> (AllRequiredHeld /\ AnyOfHeld)
        /\ Returned.valid => Returned.missing = None

\* required met, anyOf given as an empty list: valid
C22_Witness ==
    /\ Called("validateScopes")
    /\ call.required = Some(<<"read">>)
    /\ call.anyOf = Some(<< >>)
    /\ call.provided = <<"read">>
    /\ Returned.valid

\* the entries of `list` that are not in the set `have`, in the order of `list`
RECURSIVE NotIn(_, _)
NotIn(list, have) ==
    IF Len(list) = 0 THEN << >>
    ELSE LET front == NotIn(SubSeq(list, 1, Len(list) - 1), have)
             last  == list[Len(list)]
         IN  IF last \in have THEN front ELSE Append(front, last)

(* C23: when validateScopes returns valid: false, missing is that of the  *)
(* first failing check: if the all-required check fails, exactly the      *)
(* elements of required that are not in provided, in the order of         *)
(* required (also when the any-of check would fail too); otherwise the    *)
(* entire anyOf list in its original order.                               *)
C23_MissingOfFirstFailingCheck ==
    (Called("validateScopes") /\ ~Returned.valid) =>
        IF ~AllRequiredHeld
        THEN Returned.missing = Some(NotIn(Get(call.required), Range(call.provided)))
        ELSE Returned.missing = call.anyOf /\ call.anyOf # None

\* both checks fail and required is met in part: missing is the unmet part
C23_Witness ==
    /\ Called("validateScopes")
    /\ call.required = Some(<<"write", "read">>)
    /\ call.provided = <<"write">>
    /\ call.anyOf = Some(<<"admin">>)
    /\ ~AnyOfHeld
    /\ Returned.missing = Some(<<"read">>)

\* the list without the repetitions of its entries, first occurrences kept
RECURSIVE Dedup(_)
Dedup(list) ==
    IF Len(list) = 0 THEN << >>
    ELSE LET front == Dedup(SubSeq(list, 1, Len(list) - 1))
             last  == list[Len(list)]
         IN  IF last \in Range(front) THEN front ELSE Append(front, last)

DedupOpt(optList) == IF optList = None THEN None ELSE Some(Dedup(Get(optList)))

\* validateScopes on the arguments of the call with the repetitions removed
OfDeduplicated ==
    validateScopes(Dedup(call.provided), DedupOpt(call.required), DedupOpt(call.anyOf))

(* C24 as stated: duplicate entries in the provided list or in a          *)
(* requirement list have no effect on the result of validateScopes: the   *)
(* result equals the result computed for the de-duplicated lists.         *)
C24_Original ==
    Called("validateScopes") => Returned = OfDeduplicated

(* C24 amended: duplicate entries in the provided list have no effect on  *)
(* the result; duplicate entries in a requirement list have no effect on  *)
(* valid, and the missing list of the de-duplicated call is the missing   *)
(* list of the call with its repetitions removed.                         *)
C24_DuplicatesKeepVerdict ==
    Called("validateScopes") =>
        /\ Returned.valid = OfDeduplicated.valid
        /\ OfDeduplicated.missing = DedupOpt(Returned.missing)
        /\ Returned = validateScopes(Dedup(call.provided), call.required, call.anyOf)

\* a scope required twice and provided once: valid
C24_Witness ==
    /\ Called("validateScopes")
    /\ call.required = Some(<<"admin", "admin">>)
    /\ call.provided = <<"admin">>
    /\ call.anyOf = None
    /\ Returned.valid

(* C25: hasAllScopes(provided, required) is true exactly when every       *)
(* element of required is in provided (so true for an empty required      *)
(* list); hasAnyScope(provided, required) is true exactly when some       *)
(* element of required is in provided (so false for an empty required     *)
(* list, although validateScopes takes an empty anyOf list as satisfied). *)
C25_HasAllHasAny ==
    /\ Called("hasAllScopes") =>
          /\ Returned <=> (Range(call.required) \subseteq Range(call.provided))
          /\ call.required = << >> => Returned
    /\ Called("hasAnyScope") =>
          /\ Returned <=> (Range(call.required) \cap Range(call.provided) # {})
          /\ call.required = << >> => ~Returned
    /\ (Called("validateScopes") /\ call.anyOf = Some(<< >>) /\ AllRequiredHeld)
          => Returned.valid

\* hasAnyScope(['read'], []) is false
C25_Witness ==
    /\ Called("hasAnyScope")
    /\ call.required = << >>
    /\ call.provided = <<"read">>
    /\ ~Returned

-----------------------------------------------------------------------------
(* The structured errors: the specification's reading (4.4)                *)

\* kind -> code and status
ErrorTable ==
    [MissingApiKey |-> [code |-> "MISSING_API_KEY", status |-> 401],
     InvalidApiKey |-> [code |-> "INVALID_API_KEY", status |-> 401],
     InsufficientScopes |-> [code |-> "INSUFFICIENT_SCOPES", status |-> 403],
     RateLimitExceeded |-> [code |-> "RATE_LIMIT_EXCEEDED", status |-> 429]]

\* the extra fields of the serialization of each kind
ExtraFields ==
    [MissingApiKey |-> {}, InvalidApiKey |-> {},
     InsufficientScopes |-> {"requiredScopes", "providedScopes"},
     RateLimitExceeded |-> {"retryAfter"}]

(* C26: each structured error kind has a fixed code and status and is     *)
(* serialized as {error: code, message, statusCode}, plus requiredScopes  *)
(* and providedScopes for InsufficientScopes and retryAfter for           *)
(* RateLimitExceeded, with no extra fields for the other kinds.           *)
C26_ErrorCodesAndSerialization ==
    Called("new") =>
        LET e == Returned.error
            json == Returned.json
        IN  /\ e.code = ErrorTable[call.kind].code
            /\ e.statusCode = ErrorTable[call.kind].status
            /\ DOMAIN json = {"error", "message", "statusCode"} \cup ExtraFields[call.kind]
            /\ json.error = ErrorTable[call.kind].code
            /\ json.message = e.message
            /\ json.statusCode = ErrorTable[call.kind].status
            /\ call.kind = "InsufficientScopes" =>
                  /\ Some(json.requiredScopes) = e.requiredScopes
                  /\ Some(json.providedScopes) = e.providedScopes
            /\ call.kind = "RateLimitExceeded" => Some(json.retryAfter) = e.retryAfter

\* an InsufficientScopes error serialized with both scope lists
C26_Witness ==
    /\ Called("new")
    /\ call.kind = "InsufficientScopes"
    /\ Returned.json.requiredScopes = <<"read", "write">>
    /\ Returned.json.providedScopes = <<"read">>
    /\ Returned.json.statusCode = 403

-----------------------------------------------------------------------------
\* the guard threw an error of its own or gave one to the error handler
GuardRejected(r) ==
    \/ pc[r] = "errorHandler"
    \/ Done(r) /\ outcome[r] \in {"thrown", "handled", "handlerFailed"}

\* the errors given to the error handler during the invocation
HandedToHandler(r) ==
    {trace[r][i].error : i \in {j \in 1..Len(trace[r]) : trace[r][j].op = "errorHandler"}}

(* C27: every rejection produced by the guard carries a structured error, *)
(* and the only structured errors a guard invocation throws or hands to   *)
(* the error handler are MissingApiKey, InvalidApiKey and                 *)
(* InsufficientScopes; RateLimitExceeded is never raised by the guard,    *)
(* whatever rate-limit data the validator returns (remaining = 0).        *)
C27_OnlyThreeErrorKinds ==
    \A r \in Requests :
        /\ GuardRejected(r) =>
              /\ error[r] # None
              /\ Get(error[r]).name \in StructuredErrors
              /\ Get(error[r]).code \in
                    {"MISSING_API_KEY", "INVALID_API_KEY", "INSUFFICIENT_SCOPES"}
              /\ Get(error[r]).statusCode \in {401, 403}
        /\ error[r] # None => Get(error[r]).name # "RateLimitExceededError"
        /\ \A e \in HandedToHandler(r) :
              e # None /\ Get(e).name \in StructuredErrors
        /\ (Done(r) /\ ~GuardRejected(r)) => error[r] = None

\* a valid key whose rate-limit data says remaining = 0 is authenticated
C27_Witness ==
    \E r \in Requests :
        /\ Done(r)
        /\ outcome[r] = "authenticated"
        /\ Get(result[r]).rateLimit # None
        /\ Get(Get(result[r]).rateLimit).remaining = 0

-----------------------------------------------------------------------------
(* The state machine view of the guard (specification 4.3)                 *)

ValidResult(r) == result[r] # None /\ Get(result[r]).valid

\* the state of the specification's machine the invocation on r is in; an
\* invocation ended by a failing callback stays in the state it had reached
Machine(r) ==
    IF pc[r] = "idle" THEN "Start"
    ELSE IF outcome[r] = "authenticated" THEN "Authenticated"
    ELSE IF outcome[r] = "anonymous" THEN "AnonymousAllowed"
    ELSE IF GuardRejected(r) THEN "Rejected"
    ELSE IF ValidResult(r) THEN "Validated"
    ELSE "Extracted"

ScopeCheckPassed(r) ==
    /\ HasEvent(r, "validateScopes")
    /\ ScopesSatisfied(Coalesce(Get(result[r]).scopes, << >>),
                       guardOptions[r].scopes, guardOptions[r].anyScope)

ScopeCheckFailed(r) ==
    /\ HasEvent(r, "validateScopes")
    /\ ~ScopesSatisfied(Coalesce(Get(result[r]).scopes, << >>),
                        guardOptions[r].scopes, guardOptions[r].anyScope)

\* a step of the program moves the invocation on r along transitions of the
\* machine; Validated and ScopeChecked are passed through within one step
\* when nothing is awaited between them
MachineStep(r) ==
    LET from == IF invocations'[r] # invocations[r] THEN "Start" ELSE Machine(r)
        to   == Machine(r)'
    IN  \/ from = to
        \/ /\ from = "Start" /\ to = "Extracted"
           /\ key'[r] # None
        \/ /\ from = "Start" /\ to = "AnonymousAllowed"
           /\ key'[r] = None /\ EffectivePolicy(r)'
        \/ /\ from = "Start" /\ to = "Rejected"
           /\ key'[r] = None /\ ~EffectivePolicy(r)'
        \/ /\ from = "Extracted" /\ to = "Validated"
           /\ ValidResult(r)'
        \/ /\ from = "Extracted" /\ to = "AnonymousAllowed"
           /\ result'[r] # None /\ ~ValidResult(r)' /\ EffectivePolicy(r)'
        \/ /\ from = "Extracted" /\ to = "Rejected"
           /\ result'[r] # None
           /\ \/ ~ValidResult(r)' /\ ~EffectivePolicy(r)'
              \/ ValidResult(r)' /\ ScopeCheckFailed(r)'
        \/ /\ from \in {"Extracted", "Validated"} /\ to = "Authenticated"
           /\ ValidResult(r)' /\ ScopeCheckPassed(r)'
        \/ /\ from = "Validated" /\ to = "Rejected"
           /\ ScopeCheckFailed(r)'

(* C28: every guard invocation follows only the transitions of the        *)
(* specified state machine: Start->Extracted on successful extraction,    *)
(* else Start->AnonymousAllowed or Start->Rejected according to policy;   *)
(* Extracted->Validated when the validator returns a valid result, else   *)
(* ->AnonymousAllowed or ->Rejected according to policy;                  *)
(* Validated->ScopeChecked when the scope check passes, else ->Rejected;  *)
(* ScopeChecked->Authenticated; no transition leaves Authenticated,       *)
(* AnonymousAllowed or Rejected.                                          *)
C28_OnlyMachineTransitions == [][\A r \in Requests : MachineStep(r)]_vars

\* an invocation went Start, Extracted, Validated (the hook awaited),
\* ScopeChecked, Authenticated
C28_Witness ==
    \E r \in Requests :
        /\ Machine(r) = "Authenticated"
        /\ HasEvent(r, "onValidationReturned")
        /\ ScopeCheckPassed(r)
        /\ guardOptions[r].scopes = Some(<<"read", "write">>)

\* the invocation on r ended in one of the machine's terminal states
Terminated(r) ==
    /\ Done(r)
    /\ Machine(r) \in {"Authenticated", "AnonymousAllowed", "Rejected"}
    /\ outcome[r] \in {"authenticated", "anonymous", "thrown", "handled"}

\* every callback the invocation called has settled
NothingPending(r) ==
    /\ CountEvents(r, "validate") = CountEvents(r, "validateReturned")
    /\ CountEvents(r, "onValidation") = CountEvents(r, "onValidationReturned")
    /\ CountEvents(r, "errorHandler") = CountEvents(r, "errorHandlerReturned")

(* C29: provided the validator, the hook and the error handler each       *)
(* complete, every guard invocation eventually terminates in exactly one  *)
(* of the terminal states Authenticated, AnonymousAllowed or Rejected,    *)
(* having called the validator at most once and the hook at most once:    *)
(* no retries, and no work is left pending after the invocation ends.     *)
C29_TerminatesOnce ==
    \A r \in Requests :
        /\ [](Started(r) => <>Terminated(r))
        /\ [](/\ CountEvents(r, "validate") <= 1
              /\ CountEvents(r, "onValidation") <= 1
              /\ CountEvents(r, "errorHandler") <= 1
              /\ Done(r) => (Terminated(r) /\ NothingPending(r)))

\* an invocation that awaited the validator, the hook and the error handler
\* has ended
C29_Witness ==
    \E r \in Requests :
        /\ Terminated(r)
        /\ CountEvents(r, "validateReturned") = 1
        /\ CountEvents(r, "onValidationReturned") = 1
        /\ CountEvents(r, "errorHandlerReturned") = 1
        /\ outcome[r] = "handled"

-----------------------------------------------------------------------------
(* Concurrent invocations (specification 5)                                *)

\* the key the request r itself carries
OwnKey(r) == FirstYield(request[r], Sources)

\* how a rejection ends, by the error handler configured
RejectionOutcome(r) ==
    IF options.errorHandler = None THEN "thrown"
    ELSE IF HasEvent(r, "errorHandlerThrew") THEN "handlerFailed"
    ELSE "handled"

\* the outcome of the invocation on r run alone, from its own key, its own
\* validator result and the completion of its own callbacks
SoloOutcome(r) ==
    IF OwnKey(r) = None
    THEN (IF EffectivePolicy(r) THEN "anonymous" ELSE RejectionOutcome(r))
    ELSE IF HasEvent(r, "validateThrew") THEN "validateFailed"
    ELSE IF HasEvent(r, "onValidationThrew") THEN "hookFailed"
    ELSE IF ~Get(result[r]).valid
    THEN (IF EffectivePolicy(r) THEN "anonymous" ELSE RejectionOutcome(r))
    ELSE IF ScopesSatisfied(Coalesce(Get(result[r]).scopes, << >>),
                            guardOptions[r].scopes, guardOptions[r].anyScope)
    THEN "authenticated"
    ELSE RejectionOutcome(r)

\* the context of r built from its own key and its own validator result
SoloContext(r) ==
    [key |-> IF options.timingSafe = Some(FALSE) THEN Get(OwnKey(r)) ELSE Redacted,
     scopes |-> Coalesce(Get(result[r]).scopes, << >>),
     rateLimit |-> Get(result[r]).rateLimit,
     metadata |-> Coalesce(Get(result[r]).metadata, EmptyObject)]

(* C30: for any interleaving of concurrent guard invocations on distinct  *)
(* requests at the validator and hook suspension points, each request's   *)
(* outcome and attached Authentication Context are derived only from that *)
(* request's own extracted key and its own validator result: they equal   *)
(* what the invocation would produce if it ran alone, and no context is   *)
(* attached to more than one request.                                     *)
C30_RequestsIsolated ==
    \A r \in Requests :
        /\ Started(r) => key[r] = OwnKey(r)
        /\ Done(r) =>
              /\ outcome[r] = SoloOutcome(r)
              /\ IF outcome[r] = "authenticated"
                 THEN /\ decor[r][DecoratorName] = Some(SoloContext(r))
                      /\ decor[r]["apiKeyScopes"] = Some(SoloContext(r).scopes)
                 ELSE decor[r] = pre[r]
        /\ ~Done(r) => decor[r] = pre[r]
        /\ \A q \in Requests \ {r} :
              (ContextPresent(r) /\ ContextPresent(q)
                 /\ OwnKey(r) # OwnKey(q) /\ options.timingSafe = Some(FALSE))
              => Context(r) # Context(q)

\* one request is authenticated with its own key while the other, holding
\* another key and another validator result, is still awaiting its hook
C30_Witness ==
    \E r \in Requests : \E q \in Requests \ {r} :
        /\ outcome[r] = "authenticated"
        /\ Context(r).key = Get(OwnKey(r))
        /\ pc[q] = "onValidation"
        /\ key[q] # key[r]
        /\ ValidResult(q)
        /\ Get(result[q]).scopes # Get(result[r]).scopes

-----------------------------------------------------------------------------
(* Configuration (specification 3)                                         *)

\* the Guard Configuration the route of r was registered with, as far as the
\* decorator it was built with determines it
AsRegistered(r) ==
    /\ guardOptions[r].scopes = entry[r].scopes
    /\ entry[r].factory = "requireApiKey" =>
          /\ guardOptions[r].anyScope = None
          /\ guardOptions[r].allowAnonymous = None

(* C31: no guard invocation modifies the Plugin Configuration or a        *)
(* route's Guard Configuration: over any sequence of guard invocations    *)
(* (successful, anonymous or rejected) the source list, the               *)
(* anonymous-access default, the redaction flag and every route's scopes, *)
(* anyScope and allowAnonymous stay as they were at registration.         *)
C31_ConfigurationNeverModified ==
    [][/\ options' = options
       /\ \A r \in Requests :
             /\ invocations'[r] = invocations[r] => guardOptions'[r] = guardOptions[r]
             /\ Started(r)' => AsRegistered(r)']_vars

\* a route with scopes, anyScope and an anonymous-access override rejected a
\* request under custom sources and an explicit redaction flag
C31_Witness ==
    \E r \in Requests :
        /\ Done(r)
        /\ outcome[r] = "handled"
        /\ options.sources = Some(CustomSources)
        /\ options.timingSafe = Some(FALSE)
        /\ options.allowAnonymous = Some(TRUE)
        /\ guardOptions[r] = [scopes |-> Some(<<"read", "write">>),
                              anyScope |-> Some(<<"admin", "write">>),
                              allowAnonymous |-> Some(FALSE)]

-----------------------------------------------------------------------------
(* timingSafeCompare (specification 4.5)                                   *)

BothStrings == call.a.t = "string" /\ call.b.t = "string"

(* C32: timingSafeCompare(a, b) returns true exactly when a and b are     *)
(* both strings with identical content, and returns false when either    *)
(* input is not a string, when the lengths differ, or when equal-length  *)
(* strings differ in any position; two empty strings compare equal.      *)
C32_TrueIffIdenticalStrings ==
    Called("timingSafeCompare") =>
        (Returned.value <=> (BothStrings /\ call.a.s = call.b.s))

\* the strings the function takes for equal although they differ
C32_DistinctStringsCompareEqual ==
    /\ Called("timingSafeCompare")
    /\ BothStrings
    /\ call.a.s = <<"D800">> /\ call.b.s = <<"DC00">>
    /\ Returned.value

\* the bytes of s, counted unit by unit: a surrogate pair is four bytes, a
\* surrogate alone three (it is replaced), a letter one or two
RECURSIVE ByteLength(_)
ByteLength(s) ==
    IF Len(s) = 0 THEN 0
    ELSE IF Len(s) >= 2 /\ s[1] \in HighSurrogates /\ s[2] \in LowSurrogates
    THEN 4 + ByteLength(SubSeq(s, 3, Len(s)))
    ELSE (CASE s[1] \in {"0061", "0062"} -> 1
            [] s[1] = "00E9" -> 2
            [] OTHER -> 3) + ByteLength(SubSeq(s, 2, Len(s)))

(* C33: for equal-length inputs the running time of timingSafeCompare     *)
(* does not depend on the position of the first differing byte (it does  *)
(* not return early on the first mismatch): the comparison examines      *)
(* every byte, as it does for any other input of that length; and for    *)
(* inputs of different length a constant-time comparison is still        *)
(* performed before false is returned.                                   *)
C33_WorkIndependentOfContent ==
    (Called("timingSafeCompare") /\ BothStrings) =>
        /\ Returned.work = <<ByteLength(call.a.s)>>
        /\ \A b2 \in CompareStrings :
              ByteLength(b2) = ByteLength(call.b.s) =>
                  timingSafeCompare(call.a, Str(b2)).work = Returned.work
        /\ ByteLength(call.a.s) # ByteLength(call.b.s) => ~Returned.value

\* two strings of two bytes that differ in their first byte: both bytes were
\* examined
C33_Witness ==
    /\ Called("timingSafeCompare")
    /\ call.a = Str(<<"0061", "0062">>)
    /\ call.b = Str(<<"00E9">>)
    /\ ~Returned.value
    /\ Returned.work = <<2>>

-----------------------------------------------------------------------------
(* generateApiKey (specification 4.5)                                      *)

\* the characters of /^[A-Za-z0-9_-]+$/
UrlSafe ==
    { "A", "B", "C", "D", "E", "F", "G", "H", "I", "J", "K", "L", "M",
       "N", "O", "P", "Q", "R", "S", "T", "U", "V", "W", "X", "Y", "Z",
       "a", "b", "c", "d", "e", "f", "g", "h", "i", "j", "k", "l", "m",
       "n", "o", "p", "q", "r", "s", "t", "u", "v", "w", "x", "y", "z",
       "0", "1", "2", "3", "4", "5", "6", "7", "8", "9" }
    \cup
    { "-", "_" }

\* the length asked for and the prefix given, with the documented defaults
AskedLength == IF call.length = None THEN 32 ELSE Get(call.length)
GivenPrefix == IF call.prefix = None THEN << >> ELSE Get(call.prefix)

\* what follows the prefix and the underscore in the returned key
RandomPart ==
    IF GivenPrefix = << >> THEN Returned
    ELSE SubSeq(Returned, Len(GivenPrefix) + 2, Len(Returned))

-----------------------------------------------------------------------------
(* What the validator is given                                             *)

\* the keys the invocation on r called the validator with, in order
ValidatorKeys(r) ==
    LET calls == SelectSeq(trace[r], LAMBDA e : e.op = "validate")
    IN  [i \in 1..Len(calls) |-> calls[i].key]

\* the value of the first source that yields a key is that key with the
\* source's prefix in front, or the source has no prefix to match
PrefixAccountedFor(req, srcs, k) ==
    LET i == Least(Yielding(req, srcs))
        v == RawString(req, srcs[i])
        p == PrefixOf(srcs[i])
    IN  IF HasPrefix(v, p) THEN Trimmed(Drop(v, Len(p))) = k ELSE Trimmed(v) = k

(* C35: the validator is invoked only with a non-empty key that has no    *)
(* leading or trailing whitespace and has its source's matching prefix    *)
(* removed, at most once per guard invocation, and never when extraction  *)
(* yields absent (also when anonymous access is effective).               *)
C35_ValidatorGivenCleanKeyOnce ==
    \A r \in Requests :
        /\ Len(ValidatorKeys(r)) <= 1
        /\ OwnKey(r) = None =>
              /\ ValidatorKeys(r) = << >>
              /\ ~ValidatorReturned(r)
        /\ \A i \in 1..Len(ValidatorKeys(r)) :
              LET k == ValidatorKeys(r)[i] IN
              /\ k # None
              /\ Get(k) # << >>
              /\ Get(k)[1] \notin WhiteSpace
              /\ Get(k)[Len(Get(k))] \notin WhiteSpace
              /\ Yielding(request[r], Sources) # {}
              /\ PrefixAccountedFor(request[r], Sources, Get(k))

\* the header holds the prefix, the key and a trailing blank: the validator
\* was called once, with the key alone, anonymous access being allowed
C35_Witness ==
    \E r \in Requests :
        /\ Done(r)
        /\ EffectivePolicy(r)
        /\ request[r].headers = Header(Str(<<"B", " ", "s", "k", " ">>))
        /\ Sources = CustomSources
        /\ ValidatorKeys(r) = << Some(<<"s", "k">>) >>
        /\ ValidatorReturned(r)

-----------------------------------------------------------------------------
(* The decorated request over a chain of guards                            *)

ScopesPresent(r) == IsSome(decor[r]["apiKeyScopes"])

(* C36: in every reachable state of a request, after any sequence of      *)
(* guard invocations on it, the Authentication Context (under the         *)
(* configured decorator name) is present if and only if apiKeyScopes is   *)
(* present, and when both are present apiKeyScopes equals the scopes      *)
(* field of the context.                                                  *)
C36_ContextAndScopesTogether ==
    \A r \in Requests :
        /\ ContextPresent(r) <=> ScopesPresent(r)
        /\ (ContextPresent(r) /\ ScopesPresent(r)) =>
              Get(decor[r]["apiKeyScopes"]) = Context(r).scopes

\* a second guard authenticated the request again with a validator result
\* holding other scopes than the first: both fields hold the new scopes
C36_Witness ==
    \E r \in Requests :
        /\ invocations[r] = 2
        /\ HadContext(r)
        /\ outcome[r] = "authenticated"
        /\ Get(pre[r][DecoratorName]).scopes = <<"read", "write">>
        /\ Context(r).scopes = <<"read">>
        /\ decor[r]["apiKeyScopes"] = Some(<<"read">>)

\* the invocation on r has ended without authenticating the request
EndedWithoutContext(r) ==
    /\ Done(r)
    /\ outcome[r] \in {"anonymous", "thrown", "handled", "validateFailed", "hookFailed"}

(* C37: a guard invocation that ends in anonymous pass-through, in a      *)
(* rejection (thrown or handled by the error handler), or in a propagated *)
(* validator or hook failure leaves the request's decorator field and     *)
(* apiKeyScopes exactly as they were before the invocation; in particular *)
(* it does not clear a context attached by an earlier guard invocation on *)
(* the same request.                                                      *)
C37_UnauthenticatedEndTouchesNothing ==
    \A r \in Requests :
        /\ EndedWithoutContext(r) =>
              /\ decor[r] = pre[r]
              /\ HadContext(r) => (ContextPresent(r) /\ ScopesPresent(r))
        /\ (Started(r) /\ ~Done(r)) => decor[r] = pre[r]

\* a guard authenticated the request; the next guard of the chain asked for
\* scopes the key lacks and threw: the context of the first is still there
C37_Witness ==
    \E r \in Requests :
        /\ invocations[r] >= 2
        /\ HadContext(r)
        /\ Done(r)
        /\ outcome[r] = "thrown"
        /\ Get(error[r]).code = "INSUFFICIENT_SCOPES"
        /\ ContextPresent(r)
        /\ Context(r).scopes # Coalesce(Get(result[r]).scopes, << >>)

-----------------------------------------------------------------------------
(* Scope validation as a relation on provided lists                        *)

\* provided lists to compare the call with: up to one entry longer
WiderScopeArgs == UNION { [1..n -> ScopeNames] : n \in 0..(MaxScopes + 1) }

\* how often x occurs in the list
Occurrences(list, x) == Cardinality({i \in 1..Len(list) : list[i] = x})

\* the same entries in another order
Reordered(a, b) ==
    /\ Len(a) = Len(b)
    /\ \A x \in ScopeNames : Occurrences(a, x) = Occurrences(b, x)

(* C38: scope validation is monotone in the provided scopes: if           *)
(* validateScopes(provided, required, anyOf) is valid, then it is valid   *)
(* for every superset of provided with the same requirements, and the     *)
(* result does not depend on the order of the provided list.              *)
C38_MonotoneAndOrderFree ==
    Called("validateScopes") =>
        \A wider \in WiderScopeArgs :
            /\ (Returned.valid /\ Range(call.provided) \subseteq Range(wider)) =>
                  validateScopes(wider, call.required, call.anyOf).valid
            /\ Reordered(wider, call.provided) =>
                  validateScopes(wider, call.required, call.anyOf) = Returned

\* both checks pass with exactly the scopes they need, given in the reverse
\* order of the requirement
C38_Witness ==
    /\ Called("validateScopes")
    /\ call.provided = <<"write", "read">>
    /\ call.required = Some(<<"read", "write">>)
    /\ call.anyOf = Some(<<"admin", "write">>)
    /\ Returned.valid

-----------------------------------------------------------------------------
(* Prefix matching and whitespace                                          *)

\* the value of source i has whitespace in front of the source's prefix
PrefixBehindWhitespace(req, srcs, i) ==
    LET v == RawString(req, srcs[i])
        p == PrefixOf(srcs[i])
    IN  /\ p # << >>
        /\ v # << >> /\ v[1] \in WhiteSpace
        /\ ~HasPrefix(v, p)
        /\ HasPrefix(Trimmed(v), p)

(* C39: prefix matching is applied to the raw value before trimming: a    *)
(* value that has whitespace in front of the configured prefix does not   *)
(* match the prefix, so the returned key is the trimmed value with the    *)
(* prefix still in it.                                                    *)
C39_PrefixMatchedBeforeTrim ==
    \A r \in Requests :
        (Started(r) /\ Yielding(request[r], Sources) # {}) =>
            LET i == Least(Yielding(request[r], Sources)) IN
            PrefixBehindWhitespace(request[r], Sources, i) =>
                /\ key[r] = Some(Trimmed(RawString(request[r], Sources[i])))
                /\ HasPrefix(Get(key[r]), PrefixOf(Sources[i]))

\* the header is " Bs" and the prefix "B": the key is "Bs"
C39_Witness ==
    \E r \in Requests :
        /\ Started(r)
        /\ Len(Sources) = 1
        /\ Sources[1].type = "header" /\ Sources[1].prefix = Some(<<"B">>)
        /\ request[r].headers = Header(Str(<<" ", "B", "s">>))
        /\ key[r] = Some(<<"B", "s">>)

-----------------------------------------------------------------------------
(* The redaction flag                                                      *)

FlagOn == options.timingSafe # Some(FALSE)

\* the plugin options with the redaction flag the other way
FlagFlipped == [options EXCEPT !.timingSafe = Some(~FlagOn)]

\* a context without its key field
Keyless(ctx) == [scopes |-> ctx.scopes, rateLimit |-> ctx.rateLimit, metadata |-> ctx.metadata]

\* what the validator result alone puts into a context
FromResult(res) ==
    [scopes |-> Coalesce(res.scopes, << >>),
     rateLimit |-> res.rateLimit,
     metadata |-> IF res.metadata = None THEN EmptyObject ELSE Get(res.metadata)]

\* in the state of r, the guard registered with the flag the other way takes
\* the same decisions, raises the same error, calls the hook with the same
\* arguments and builds the same context but for its key
SameWithFlagFlipped(r) ==
    /\ Config(FlagFlipped).sources = Config(options).sources
    /\ Config(FlagFlipped).decoratorName = Config(options).decoratorName
    /\ Config(FlagFlipped).errorHandler = Config(options).errorHandler
    /\ Config(FlagFlipped).onValidation = Config(options).onValidation
    /\ MissingKeyStep(FlagFlipped, guardOptions[r]) = MissingKeyStep(options, guardOptions[r])
    /\ ValidatorReturned(r) =>
          /\ ValidatedStep(FlagFlipped, guardOptions[r], Get(result[r]))
                = ValidatedStep(options, guardOptions[r], Get(result[r]))
          /\ onValidationCall(FlagFlipped, Get(key[r]), Get(result[r]))
                = onValidationCall(options, Get(key[r]), Get(result[r]))
          /\ Keyless(apiKeyData(FlagFlipped, Get(key[r]), Get(result[r])))
                = Keyless(apiKeyData(options, Get(key[r]), Get(result[r])))

\* the callbacks were given the key as extracted and the result as returned
CallbacksGivenOwnData(r) ==
    \A i \in 1..Len(trace[r]) :
        /\ trace[r][i].op = "validate" => trace[r][i].key = OwnKey(r)
        /\ trace[r][i].op = "onValidation" =>
              /\ trace[r][i].key = Some(Get(OwnKey(r)))
              /\ trace[r][i].result = result[r]

=============================================================================
